---- MODULE Spec2Model ----
(***************************************************************************)
(* Kitchly: the per-conversation kitchen state store, the cook-along       *)
(* session handler and the create-recipe handler, as a state machine.      *)
(*                                                                         *)
(* Optional values (JS undefined / absent fields) are sequences of length  *)
(* 0 or 1: None is <<>>, Some(x) is <<x>>.  JS arrays are sequences; a JS   *)
(* index i is position i+1.  A user utterance is the sequence of its       *)
(* tokens: maximal word runs and the punctuation between them, single      *)
(* spaces between tokens being implicit.  An inference response is the     *)
(* sequence of its characters.                                             *)
(***************************************************************************)
EXTENDS Integers, Sequences, FiniteSets, TLC

VARIABLES
    cache,      \* the cache entry of the room: Maybe(KitchenState)
    now,        \* the clock read by new Date()
    trace,      \* the last handler invocation: inputs, store writes, callback texts, result
    userText,   \* classifier input (specification SpecNav)
    navResult,  \* classifier output (specification SpecNav)
    store,      \* the cache of the runtime, by cache key (specification SpecStore)
    procs,      \* the handlers at work on the cache: where each is in updateKitchenState
    last,       \* the last step on the cache: what it read, wrote and returned
    request,    \* an order to build (specification SpecOrder): who asks, and what for
    posts,      \* the HTTP POSTs issued for it
    outcome,    \* how the call of the order client ended, once it has
    config,     \* INSTACART_API_KEY in the settings of the runtime and in the environment
    service,    \* the InstacartService of the runtime: not started yet, failed, or running
    apiCall,    \* the apiRequest under way (specification SpecHttp): where it is
    thrown,     \* the exception that left the last handler invoked, if one did
    chat        \* the chat hook of the frontend: messages, isLoading, requests (SpecChat)

\* the agent around the handlers
agentVars == <<config, service, apiCall, thrown, chat>>

vars == <<cache, now, trace, userText, navResult, store, procs, last, request, posts, outcome,
          agentVars>>

----------------------------------------------------------------------------
(* Bounds *)

MaxSteps == 5
MaxTime == 2
MaxWords == 3
\* how far outside [0, totalSteps) a stored step is moved from outside the program
MaxSkew == 2
\* how many updateKitchenState calls the handlers make in all
MaxCalls == 2
\* how many ingredients or line items an order has
MaxItems == 2

----------------------------------------------------------------------------
(* Optional values and small helpers *)

None == <<>>
Some(x) == <<x>>
IsSome(m) == Len(m) = 1
Get(m) == m[1]

Max(a, b) == IF a >= b THEN a ELSE b

RECURSIVE Join(_, _)
Join(strs, sep) ==
    IF Len(strs) = 0 THEN ""
    ELSE IF Len(strs) = 1 THEN strs[1]
    ELSE strs[1] \o sep \o Join(Tail(strs), sep)

----------------------------------------------------------------------------
(* Kitchen state store *)

KitchenFields ==
    {"currentRecipe", "currentMealPlan", "cookingSession", "productsLinkUrl", "userPreferences"}

EmptyKitchenState == [f \in KitchenFields |-> None]

\* what cacheManager.get can resolve to: undefined on a miss, null, a string, an object
\* (fields: the KitchenState fields of an object)
Undefined == [typeof |-> "undefined", truthy |-> FALSE, fields |-> EmptyKitchenState]
Null == [typeof |-> "object", truthy |-> FALSE, fields |-> EmptyKitchenState]
StringValue == [typeof |-> "string", truthy |-> TRUE, fields |-> EmptyKitchenState]
Object(fields) == [typeof |-> "object", truthy |-> TRUE, fields |-> fields]

\* a promise settled: resolved with a value, or rejected
Resolved(value) == [threw |-> FALSE, value |-> value]
Rejected == [threw |-> TRUE, value |-> Undefined]

\* a slip: no try/catch around the cache read
getKitchenStateNoCatch(read) ==
    IF read.threw THEN Rejected
    ELSE IF read.value.truthy /\ read.value.typeof = "object" THEN Resolved(read.value)
    ELSE Resolved(Object(EmptyKitchenState))

\* getKitchenState, given how `await runtime.cacheManager?.get(cacheKey)` settled
getKitchenStateOf(read) ==
    IF read.threw THEN Resolved(Object(EmptyKitchenState))
    ELSE IF read.value.truthy /\ read.value.typeof = "object" THEN Resolved(read.value)
    ELSE Resolved(Object(EmptyKitchenState))

\* getKitchenState on the one room of Spec, whose cache works: the cached object, or {}
\* on a miss
getKitchenState(c) ==
    getKitchenStateOf(Resolved(IF IsSome(c) THEN Object(Get(c)) ELSE Undefined)).value.fields

\* a slip: the updates are stored in place of the state, not spread over it
MergeDropsCurrent(current, updates) ==
    [f \in KitchenFields |-> IF f \in DOMAIN updates THEN updates[f] ELSE None]

\* { ...current, ...updates }
Merge(current, updates) ==
    [f \in KitchenFields |-> IF f \in DOMAIN updates THEN updates[f] ELSE current[f]]

\* updateKitchenState: read, shallow-merge, write
updateKitchenState(c, updates) == Some(Merge(getKitchenState(c), updates))

\* the cache after a handler's writes, applied in order
RECURSIVE ApplyWrites(_, _)
ApplyWrites(c, writes) ==
    IF Len(writes) = 0 THEN c
    ELSE ApplyWrites(updateKitchenState(c, Head(writes)), Tail(writes))

----------------------------------------------------------------------------
(* Navigation command detection *)

\* String.prototype.toLowerCase on one token
ToLowerCase(tok) ==
    CASE tok = "Okay" -> "okay"
      [] tok = "DONE" -> "done"
      [] OTHER -> tok

\* text.toLowerCase().trim(): tokens carry no surrounding blanks
Normalize(text) == [i \in 1..Len(text) |-> ToLowerCase(text[i])]

\* \b(w)\b for a single word w of ws
HasWord(t, ws) == \E i \in 1..Len(t) : t[i] \in ws

\* \b(p)\b for a phrase p: its words in a row, one blank between them
HasPhrase(t, ps) ==
    \E p \in ps : \E i \in 1..Len(t) :
        /\ i + Len(p) - 1 <= Len(t)
        /\ SubSeq(t, i, i + Len(p) - 1) = p

MatchesDone(t) == HasWord(t, {"done", "finish", "stop", "end", "exit", "quit"})

MatchesNext(t) ==
    \/ HasWord(t, {"next", "continue", "okay", "ok"})
    \/ HasPhrase(t, {<<"go", "on">>, <<"move", "on">>, <<"what's", "next">>,
                     <<"whats", "next">>, <<"got", "it">>})

MatchesPrevious(t) ==
    \/ HasWord(t, {"previous", "prev", "back"})
    \/ HasPhrase(t, {<<"go", "back">>, <<"last", "step">>})

MatchesRepeat(t) ==
    \/ HasWord(t, {"repeat", "again"})
    \/ HasPhrase(t, {<<"say", "that", "again">>, <<"one", "more", "time">>,
                     <<"what", "was", "that">>})

MatchesStart(t) ==
    \/ HasWord(t, {"start", "begin", "ready"})
    \/ HasPhrase(t, {<<"let's", "go">>, <<"lets", "go">>, <<"let's", "cook">>,
                     <<"lets", "cook">>, <<"let's", "start">>, <<"lets", "start">>})

MatchesStatus(t) ==
    \/ HasWord(t, {"status", "progress"})
    \/ HasPhrase(t, {<<"where", "am", "i">>, <<"what", "step">>, <<"how", "far">>})

MatchesIngredients(t) ==
    \/ HasWord(t, {"ingredients", "supplies"})
    \/ HasPhrase(t, {<<"what", "do", "i", "need">>, <<"shopping", "list">>})

\* a slip in the order of the tests: next is tried before done
detectNavCommandNextFirst(text) ==
    LET t == Normalize(text) IN
    IF MatchesNext(t) THEN "next"
    ELSE IF MatchesDone(t) THEN "done"
    ELSE IF MatchesPrevious(t) THEN "previous"
    ELSE IF MatchesRepeat(t) THEN "repeat"
    ELSE IF MatchesStart(t) THEN "start"
    ELSE IF MatchesStatus(t) THEN "status"
    ELSE IF MatchesIngredients(t) THEN "ingredients"
    ELSE "none"

detectNavCommand(text) ==
    LET t == Normalize(text) IN
    IF MatchesDone(t) THEN "done"
    ELSE IF MatchesNext(t) THEN "next"
    ELSE IF MatchesPrevious(t) THEN "previous"
    ELSE IF MatchesRepeat(t) THEN "repeat"
    ELSE IF MatchesStart(t) THEN "start"
    ELSE IF MatchesStatus(t) THEN "status"
    ELSE IF MatchesIngredients(t) THEN "ingredients"
    ELSE "none"

----------------------------------------------------------------------------
(* Formatting helpers *)

\* recipe.instructions[stepIndex] inside a template literal
InstructionAt(recipe, stepIndex) ==
    IF stepIndex >= 0 /\ stepIndex < Len(recipe.instructions)
    THEN recipe.instructions[stepIndex + 1]
    ELSE "undefined"

\* a slip: the step number is printed without the + 1
formatStepForVoiceZeroBased(recipe, stepIndex) ==
    "Step " \o ToString(stepIndex) \o " of " \o ToString(Len(recipe.instructions))
        \o ": " \o InstructionAt(recipe, stepIndex)

formatStepForVoice(recipe, stepIndex) ==
    LET total == Len(recipe.instructions)
        stepNum == stepIndex + 1
        instruction == InstructionAt(recipe, stepIndex)
    IN "Step " \o ToString(stepNum) \o " of " \o ToString(total) \o ": " \o instruction

\* a quantity: a number, a string that spells a number ("2"), or none at all (undefined),
\* as JSON.parse gives them; and NaN, a value of type number that a caller can compute
Number(n) == [typeof |-> "number", number |-> n, isNaN |-> FALSE]
NumericString(n) == [typeof |-> "string", number |-> n, isNaN |-> FALSE]
NoQuantity == [typeof |-> "undefined", number |-> 0, isNaN |-> FALSE]
NaN == [typeof |-> "number", number |-> 0, isNaN |-> TRUE]

\* `${m.quantity}`
QuantityText(q) ==
    IF q.typeof = "undefined" THEN "undefined"
    ELSE IF q.isNaN THEN "NaN"
    ELSE ToString(q.number)

MeasurementText(m) == QuantityText(m.quantity) \o " " \o m.unit

\* `${ing.name}`
NameText(ing) == IF IsSome(ing.name) THEN Get(ing.name) ELSE "undefined"

\* ing.measurements?.map(...): nothing to map when there are no measurements
MeasurementsOrEmpty(ing) == IF IsSome(ing.measurements) THEN Get(ing.measurements) ELSE <<>>

IngredientLine(ing) ==
    IF IsSome(ing.display_text) /\ Get(ing.display_text) # ""
    THEN "- " \o Get(ing.display_text)
    ELSE LET meas == Join([i \in 1..Len(MeasurementsOrEmpty(ing)) |->
                              MeasurementText(MeasurementsOrEmpty(ing)[i])], ", ")
         IN IF meas # "" THEN "- " \o meas \o " " \o NameText(ing) ELSE "- " \o NameText(ing)

formatIngredientsForVoice(recipe) ==
    "Ingredients for " \o recipe.title \o ":\n"
        \o Join([i \in 1..Len(recipe.ingredients) |-> IngredientLine(recipe.ingredients[i])], "\n")

\* Math.round(x) for x = (current / total) * 100 >= 0: floor(x + 1/2)
RoundPercent(current, total) == (200 * current + total) \div (2 * total)

formatSessionStatus(session) ==
    LET total == Len(session.recipe.instructions)
        current == session.currentStep + 1
        pct == RoundPercent(current, total)
    IN "You're on step " \o ToString(current) \o " of " \o ToString(total) \o " for "
        \o session.recipe.title \o " (" \o ToString(pct) \o "% complete)."
        \o (IF session.isPaused THEN " The session is paused." ELSE "")

----------------------------------------------------------------------------
(* Inference responses: character sequences *)

IsBlank(c) == c \in {" ", "\n", "\t"}

RECURSIVE TrimStart(_)
TrimStart(cs) ==
    IF Len(cs) > 0 /\ IsBlank(Head(cs)) THEN TrimStart(Tail(cs)) ELSE cs

RECURSIVE TrimEnd(_)
TrimEnd(cs) ==
    IF Len(cs) > 0 /\ IsBlank(cs[Len(cs)]) THEN TrimEnd(SubSeq(cs, 1, Len(cs) - 1)) ELSE cs

\* String.prototype.trim
Trim(cs) == TrimEnd(TrimStart(cs))

LowerLetters ==
    <<"a", "b", "c", "d", "e", "f", "g", "h", "i", "j", "k", "l", "m",
      "n", "o", "p", "q", "r", "s", "t", "u", "v", "w", "x", "y", "z">>

UpperLetters ==
    <<"A", "B", "C", "D", "E", "F", "G", "H", "I", "J", "K", "L", "M",
      "N", "O", "P", "Q", "R", "S", "T", "U", "V", "W", "X", "Y", "Z">>

UpperChar(c) ==
    IF \E i \in 1..26 : LowerLetters[i] = c
    THEN UpperLetters[CHOOSE i \in 1..26 : LowerLetters[i] = c]
    ELSE c

\* String.prototype.toUpperCase
ToUpperCase(cs) == [i \in 1..Len(cs) |-> UpperChar(cs[i])]

\* the string a character sequence spells
Text(cs) == Join(cs, "")

----------------------------------------------------------------------------
(* Handler results *)

Ok(text, data) == [success |-> TRUE, text |-> Some(text), error |-> None, data |-> data]
Fail(error) == [success |-> FALSE, text |-> None, error |-> Some(error), data |-> None]

StepData(step, totalSteps) == Some([currentStep |-> step, totalSteps |-> totalSteps])
FinishedData == Some([finished |-> TRUE])

LastStepText(session) ==
    "That was the last step! Your " \o session.recipe.title \o " is complete. Enjoy your meal!"

EndedText(session) ==
    "Cooking session ended for " \o session.recipe.title \o ". Great job!"

----------------------------------------------------------------------------
(* Cook-along, CASE A: the cases of the switch on navCommand.  Each yields  *)
(* the handler's store writes (in order), callback texts and result.       *)

\* a slip: > for >=, so the last step advances past the end
CaseNextPastEnd(session) ==
    LET totalSteps == Len(session.recipe.instructions)
        nextStep == session.currentStep + 1
    IN IF nextStep > totalSteps
       THEN [writes |-> <<[cookingSession |-> None]>>,
             texts |-> <<LastStepText(session)>>,
             result |-> Ok(LastStepText(session), FinishedData)]
       ELSE [writes |-> <<[cookingSession |-> Some([session EXCEPT !.currentStep = nextStep])]>>,
             texts |-> <<formatStepForVoice(session.recipe, nextStep)>>,
             result |-> Ok(formatStepForVoice(session.recipe, nextStep),
                           StepData(nextStep, totalSteps))]

\* a slip: the completion is announced but the session is not cleared
CaseNextKeepsSession(session) ==
    LET totalSteps == Len(session.recipe.instructions)
        nextStep == session.currentStep + 1
    IN IF nextStep >= totalSteps
       THEN [writes |-> <<>>,
             texts |-> <<LastStepText(session)>>,
             result |-> Ok(LastStepText(session), FinishedData)]
       ELSE [writes |-> <<[cookingSession |-> Some([session EXCEPT !.currentStep = nextStep])]>>,
             texts |-> <<formatStepForVoice(session.recipe, nextStep)>>,
             result |-> Ok(formatStepForVoice(session.recipe, nextStep),
                           StepData(nextStep, totalSteps))]

CaseNext(session) ==
    LET totalSteps == Len(session.recipe.instructions)
        nextStep == session.currentStep + 1
    IN IF nextStep >= totalSteps
       THEN [writes |-> <<[cookingSession |-> None]>>,
             texts |-> <<LastStepText(session)>>,
             result |-> Ok(LastStepText(session), FinishedData)]
       ELSE [writes |-> <<[cookingSession |-> Some([session EXCEPT !.currentStep = nextStep])]>>,
             texts |-> <<formatStepForVoice(session.recipe, nextStep)>>,
             result |-> Ok(formatStepForVoice(session.recipe, nextStep),
                           StepData(nextStep, totalSteps))]

\* a slip: no Math.max
CasePreviousNoClamp(session) ==
    LET totalSteps == Len(session.recipe.instructions)
        prevStep == session.currentStep - 1
    IN [writes |-> <<[cookingSession |-> Some([session EXCEPT !.currentStep = prevStep])]>>,
        texts |-> <<formatStepForVoice(session.recipe, prevStep)>>,
        result |-> Ok(formatStepForVoice(session.recipe, prevStep),
                      StepData(prevStep, totalSteps))]

CasePrevious(session) ==
    LET totalSteps == Len(session.recipe.instructions)
        prevStep == Max(0, session.currentStep - 1)
    IN [writes |-> <<[cookingSession |-> Some([session EXCEPT !.currentStep = prevStep])]>>,
        texts |-> <<formatStepForVoice(session.recipe, prevStep)>>,
        result |-> Ok(formatStepForVoice(session.recipe, prevStep),
                      StepData(prevStep, totalSteps))]

\* a slip: a missing return lets repeat fall through to the next case, done
CaseRepeatFallsThrough(session) ==
    [writes |-> <<[cookingSession |-> None]>>,
     texts |-> <<formatStepForVoice(session.recipe, session.currentStep), EndedText(session)>>,
     result |-> Ok(EndedText(session), FinishedData)]

CaseRepeat(session) ==
    LET totalSteps == Len(session.recipe.instructions)
        stepText == formatStepForVoice(session.recipe, session.currentStep)
    IN [writes |-> <<>>,
        texts |-> <<stepText>>,
        result |-> Ok(stepText, StepData(session.currentStep, totalSteps))]

\* a slip: done ends the session only on the last step
CaseDoneOnLastStep(session) ==
    [writes |-> IF session.currentStep + 1 >= Len(session.recipe.instructions)
                THEN <<[cookingSession |-> None]>> ELSE <<>>,
     texts |-> <<EndedText(session)>>,
     result |-> Ok(EndedText(session), FinishedData)]

CaseDone(session) ==
    [writes |-> <<[cookingSession |-> None]>>,
     texts |-> <<EndedText(session)>>,
     result |-> Ok(EndedText(session), FinishedData)]

\* a slip: status writes the session back, unpaused
CaseStatusWritesBack(session) ==
    LET totalSteps == Len(session.recipe.instructions)
        statusText == formatSessionStatus(session)
    IN [writes |-> <<[cookingSession |-> Some([session EXCEPT !.isPaused = FALSE])]>>,
        texts |-> <<statusText>>,
        result |-> Ok(statusText, StepData(session.currentStep, totalSteps))]

CaseStatus(session) ==
    LET totalSteps == Len(session.recipe.instructions)
        statusText == formatSessionStatus(session)
    IN [writes |-> <<>>,
        texts |-> <<statusText>>,
        result |-> Ok(statusText, StepData(session.currentStep, totalSteps))]

CaseIngredients(session) ==
    LET ingText == formatIngredientsForVoice(session.recipe)
    IN [writes |-> <<>>,
        texts |-> <<ingText>>,
        result |-> Ok(ingText, None)]

\* a slip: the restart text is sent but currentStep is not reset
CaseStartKeepsStep(session) ==
    LET totalSteps == Len(session.recipe.instructions)
        restartText == "Restarting " \o session.recipe.title \o " from the beginning.\n\n"
                           \o formatStepForVoice(session.recipe, 0)
    IN [writes |-> <<[cookingSession |-> Some([session EXCEPT !.isPaused = FALSE])]>>,
        texts |-> <<restartText>>,
        result |-> Ok(restartText, StepData(0, totalSteps))]

CaseStartRestamps(session) ==
    LET totalSteps == Len(session.recipe.instructions)
        restartText == "Restarting " \o session.recipe.title \o " from the beginning.\n\n"
                           \o formatStepForVoice(session.recipe, 0)
    IN [writes |-> <<[cookingSession |->
                        Some([session EXCEPT !.currentStep = 0, !.isPaused = FALSE,
                                             !.startedAt = now])]>>,
        texts |-> <<restartText>>,
        result |-> Ok(restartText, StepData(0, totalSteps))]

CaseStart(session) ==
    LET totalSteps == Len(session.recipe.instructions)
        restartText == "Restarting " \o session.recipe.title \o " from the beginning.\n\n"
                           \o formatStepForVoice(session.recipe, 0)
    IN [writes |-> <<[cookingSession |->
                        Some([session EXCEPT !.currentStep = 0, !.isPaused = FALSE])]>>,
        texts |-> <<restartText>>,
        result |-> Ok(restartText, StepData(0, totalSteps))]

\* a slip: the response is compared as it came, neither trimmed nor upper-cased
CaseNoneExactMatch(session, llmResponse) ==
    LET raw == Text(llmResponse)
    IN IF raw = "NEXT" THEN CaseNext(session)
       ELSE IF raw = "PREVIOUS" THEN CasePrevious(session)
       ELSE IF raw = "REPEAT" THEN CaseRepeat(session)
       ELSE IF raw = "DONE" THEN CaseDone(session)
       ELSE [writes |-> <<>>,
             texts |-> <<Text(Trim(llmResponse))>>,
             result |-> Ok(Text(Trim(llmResponse)),
                           StepData(session.currentStep, Len(session.recipe.instructions)))]

\* case 'none': the inference response decides
CaseNone(session, llmResponse) ==
    LET totalSteps == Len(session.recipe.instructions)
        trimmed == Text(ToUpperCase(Trim(llmResponse)))
    IN IF trimmed = "NEXT" THEN
           LET nextStep == session.currentStep + 1
           IN IF nextStep >= totalSteps
              THEN [writes |-> <<[cookingSession |-> None]>>,
                    texts |-> <<LastStepText(session)>>,
                    result |-> Ok(LastStepText(session), FinishedData)]
              ELSE [writes |-> <<[cookingSession |->
                                    Some([session EXCEPT !.currentStep = nextStep])]>>,
                    texts |-> <<formatStepForVoice(session.recipe, nextStep)>>,
                    result |-> Ok(formatStepForVoice(session.recipe, nextStep),
                                  StepData(nextStep, totalSteps))]
       ELSE IF trimmed = "PREVIOUS" THEN
           LET prevStep == Max(0, session.currentStep - 1)
           IN [writes |-> <<[cookingSession |->
                               Some([session EXCEPT !.currentStep = prevStep])]>>,
               texts |-> <<formatStepForVoice(session.recipe, prevStep)>>,
               result |-> Ok(formatStepForVoice(session.recipe, prevStep),
                             StepData(prevStep, totalSteps))]
       ELSE IF trimmed = "REPEAT" THEN
           LET stepText == formatStepForVoice(session.recipe, session.currentStep)
           IN [writes |-> <<>>,
               texts |-> <<stepText>>,
               result |-> Ok(stepText, StepData(session.currentStep, totalSteps))]
       ELSE IF trimmed = "DONE" THEN
           [writes |-> <<[cookingSession |-> None]>>,
            texts |-> <<EndedText(session)>>,
            result |-> Ok(EndedText(session), FinishedData)]
       ELSE
           [writes |-> <<>>,
            texts |-> <<Text(Trim(llmResponse))>>,
            result |-> Ok(Text(Trim(llmResponse)), StepData(session.currentStep, totalSteps))]

\* the switch (navCommand)
Navigate(session, navCommand, llmResponse) ==
    CASE navCommand = "next" -> CaseNext(session)
      [] navCommand = "previous" -> CasePrevious(session)
      [] navCommand = "repeat" -> CaseRepeat(session)
      [] navCommand = "done" -> CaseDone(session)
      [] navCommand = "status" -> CaseStatus(session)
      [] navCommand = "ingredients" -> CaseIngredients(session)
      [] navCommand = "start" -> CaseStart(session)
      [] OTHER -> CaseNone(session, llmResponse)

----------------------------------------------------------------------------
(* Recipe generation output, as JSON.parse sees it: the response trimmed and *)
(* taken out of its code fence.  Of a recipe, the title, ingredients,        *)
(* instructions and servings are kept; prepTime, cookTime, cuisine and       *)
(* dietaryTags are copied through by the handlers and read by none of them.  *)

\* instructions of an n-step recipe
Instructions(n) == [i \in 1..n |-> "Do " \o ToString(i)]

\* flour with a negative quantity, salt without measurements, eggs as they should be
Ingredients ==
    <<[name |-> Some("flour"), display_text |-> None,
       measurements |-> Some(<<[quantity |-> Number(-1), unit |-> "cup"]>>)],
      [name |-> Some("salt"), display_text |-> Some("a pinch of salt"), measurements |-> None],
      [name |-> Some("eggs"), display_text |-> None,
       measurements |-> Some(<<[quantity |-> Number(2), unit |-> "large"]>>)]>>

\* parses = FALSE: JSON.parse throws.  A None field is absent (or not an array).
Unparsable ==
    [parses |-> FALSE, title |-> None, ingredients |-> None, instructions |-> None,
     servings |-> None]

\* a complete recipe of n steps
Complete(n) ==
    [parses |-> TRUE, title |-> Some("Soup"), ingredients |-> Some(Ingredients),
     instructions |-> Some(Instructions(n)), servings |-> None]

\* every complete recipe, and one output for each way of being incomplete
GenOutputs ==
    {Complete(n) : n \in 1..MaxSteps}
    \cup {Unparsable,
          [Complete(2) EXCEPT !.title = None],
          [Complete(2) EXCEPT !.title = Some("")],
          [Complete(2) EXCEPT !.ingredients = None],
          [Complete(2) EXCEPT !.ingredients = Some(<<>>)],
          [Complete(2) EXCEPT !.instructions = None],
          [Complete(2) EXCEPT !.instructions = Some(<<>>)]}

\* a slip: an empty list of instructions passes
IsCompleteAnyInstructions(parsed) ==
    /\ IsSome(parsed.title) /\ Get(parsed.title) # ""
    /\ IsSome(parsed.ingredients) /\ Len(Get(parsed.ingredients)) > 0
    /\ IsSome(parsed.instructions)

\* title && Array.isArray(ingredients) && length > 0 && Array.isArray(instructions) && length > 0
IsComplete(parsed) ==
    /\ IsSome(parsed.title) /\ Get(parsed.title) # ""
    /\ IsSome(parsed.ingredients) /\ Len(Get(parsed.ingredients)) > 0
    /\ IsSome(parsed.instructions) /\ Len(Get(parsed.instructions)) > 0

\* m.quantity > 0: a string is converted to the number it spells, undefined to NaN, and
\* every comparison with NaN is false
GreaterThanZero(q) == q.typeof # "undefined" /\ ~q.isNaN /\ q.number > 0

\* m.quantity <= 0
LessOrEqualZero(q) == q.typeof # "undefined" /\ ~q.isNaN /\ q.number <= 0

\* quantity: m.quantity > 0 ? m.quantity : 1
PositiveQuantity(m) ==
    [m EXCEPT !.quantity = IF GreaterThanZero(m.quantity) THEN m.quantity ELSE Number(1)]

\* (measurements || []).map((m) => ({ ...m, quantity: ... }))
PositiveQuantities(measurements) ==
    [i \in 1..Len(measurements) |-> PositiveQuantity(measurements[i])]

\* cook-along: { ...ing, measurements: (ing.measurements || []).map(...) }
QuickIngredient(ing) ==
    [ing EXCEPT !.measurements = Some(PositiveQuantities(MeasurementsOrEmpty(ing)))]

\* cook-along: the recipe parsed from the quick-recipe response, if any
QuickRecipe(genOutput) ==
    IF genOutput.parses /\ IsComplete(genOutput)
    THEN Some([title |-> Get(genOutput.title),
               ingredients |-> [i \in 1..Len(Get(genOutput.ingredients)) |->
                                   QuickIngredient(Get(genOutput.ingredients)[i])],
               instructions |-> Get(genOutput.instructions),
               servings |-> genOutput.servings])
    ELSE None

\* create-recipe: validateIngredients, one ingredient
ValidatedIngredient(ing) ==
    LET measurements == PositiveQuantities(MeasurementsOrEmpty(ing))
    IN [ing EXCEPT !.measurements =
            IF Len(measurements) = 0 THEN Some(<<[quantity |-> Number(1), unit |-> "unit"]>>)
            ELSE Some(measurements)]

\* a slip: an ingredient left without a positive quantity is left out
HasPositiveQuantity(ing) == Len(PositiveQuantities(MeasurementsOrEmpty(ing))) > 0
validateIngredientsDropping(ingredients) ==
    LET kept == SelectSeq(ingredients, HasPositiveQuantity)
    IN [i \in 1..Len(kept) |-> ValidatedIngredient(kept[i])]

validateIngredients(ingredients) == [i \in 1..Len(ingredients) |-> ValidatedIngredient(ingredients[i])]

DefaultServings == 4

----------------------------------------------------------------------------
(* Cook-along, CASE B: no active session *)

NoRecipeText == "I don't have a recipe loaded yet. Let me create one for you first..."

GenerationFailedText ==
    "I could not generate a recipe from your request. Please try asking for a specific dish first, then start the cook-along."

IntroText(recipe) ==
    "Let's cook " \o recipe.title \o "! I'll guide you step by step. There are "
        \o ToString(Len(recipe.instructions))
        \o " steps total. Say \"next\" to advance, \"repeat\" to hear a step again, \"previous\" to go back, or \"done\" to end.\n\n"
        \o formatStepForVoice(recipe, 0)

\* a slip: the new session starts where the command points, at the second step
NewSessionAtSecondStep(recipe, clock) ==
    [recipe |-> recipe, currentStep |-> 1, startedAt |-> clock, isPaused |-> FALSE]

NewSession(recipe, clock) ==
    [recipe |-> recipe, currentStep |-> 0, startedAt |-> clock, isPaused |-> FALSE]

\* the session is created against `recipe`; `before` are the writes and texts so far
CreateSession(recipe, clock, before) ==
    [writes |-> Append(before.writes, [cookingSession |-> Some(NewSession(recipe, clock))]),
     texts |-> Append(before.texts, IntroText(recipe)),
     result |-> Ok(IntroText(recipe),
                   Some([recipeTitle |-> recipe.title, currentStep |-> 0,
                         totalSteps |-> Len(recipe.instructions), sessionStarted |-> TRUE]))]

\* a slip: the generated recipe goes into the session but is never saved as currentRecipe
BeginSessionSkipsSave(kitchenState, genOutput, clock) ==
    IF IsSome(kitchenState.currentRecipe)
    THEN CreateSession(Get(kitchenState.currentRecipe), clock, [writes |-> <<>>, texts |-> <<>>])
    ELSE LET recipe == QuickRecipe(genOutput)
         IN IF ~IsSome(recipe)
            THEN [writes |-> <<>>,
                  texts |-> <<NoRecipeText, GenerationFailedText>>,
                  result |-> Fail(GenerationFailedText)]
            ELSE CreateSession(Get(recipe), clock,
                               [writes |-> <<>>, texts |-> <<NoRecipeText>>])

\* a slip: the save comes before the test of the recipe, so a failed generation writes
BeginSessionSavesBeforeCheck(kitchenState, genOutput, clock) ==
    IF IsSome(kitchenState.currentRecipe)
    THEN CreateSession(Get(kitchenState.currentRecipe), clock, [writes |-> <<>>, texts |-> <<>>])
    ELSE LET recipe == QuickRecipe(genOutput)
         IN IF ~IsSome(recipe)
            THEN [writes |-> <<[currentRecipe |-> recipe]>>,
                  texts |-> <<NoRecipeText, GenerationFailedText>>,
                  result |-> Fail(GenerationFailedText)]
            ELSE CreateSession(Get(recipe), clock,
                               [writes |-> <<[currentRecipe |-> recipe]>>,
                                texts |-> <<NoRecipeText>>])

BeginSession(kitchenState, genOutput, clock) ==
    IF IsSome(kitchenState.currentRecipe)
    THEN CreateSession(Get(kitchenState.currentRecipe), clock, [writes |-> <<>>, texts |-> <<>>])
    ELSE LET recipe == QuickRecipe(genOutput)
         IN IF ~IsSome(recipe)
            THEN [writes |-> <<>>,
                  texts |-> <<NoRecipeText, GenerationFailedText>>,
                  result |-> Fail(GenerationFailedText)]
            ELSE CreateSession(Get(recipe), clock,
                               [writes |-> <<[currentRecipe |-> recipe]>>,
                                texts |-> <<NoRecipeText>>])

----------------------------------------------------------------------------
(* Create-recipe handler *)

LinkText(url) ==
    "**[Order ingredients on Instacart](" \o url \o ")** -- get everything delivered to your door!"

\* a slip: without a new link the stored one is left as it is
CreateRecipeOutcomeKeepsLink(genOutput, instacartUrl) ==
    IF ~genOutput.parses
    THEN [writes |-> <<>>, texts |-> <<>>,
          result |-> Fail("Failed to parse recipe from the AI response. Please try rephrasing your request.")]
    ELSE IF ~IsComplete(genOutput)
    THEN [writes |-> <<>>, texts |-> <<>>,
          result |-> Fail("The generated recipe was incomplete. Please try again with more details.")]
    ELSE LET recipe == [title |-> Get(genOutput.title),
                        ingredients |-> validateIngredients(Get(genOutput.ingredients)),
                        instructions |-> Get(genOutput.instructions),
                        servings |-> IF IsSome(genOutput.servings) /\ Get(genOutput.servings) # 0
                                     THEN genOutput.servings ELSE Some(DefaultServings)]
         IN [writes |-> IF IsSome(instacartUrl)
                        THEN <<[currentRecipe |-> Some(recipe), productsLinkUrl |-> instacartUrl]>>
                        ELSE <<[currentRecipe |-> Some(recipe)]>>,
             texts |-> IF IsSome(instacartUrl) THEN <<LinkText(Get(instacartUrl))>> ELSE <<>>,
             result |-> Ok(IF IsSome(instacartUrl)
                           THEN "Instacart link: " \o Get(instacartUrl)
                           ELSE "Recipe created (Instacart link unavailable)",
                           Some([recipe |-> recipe, instacartUrl |-> instacartUrl]))]

\* instacartUrl: the link the order service returned, None when it is absent or failed
CreateRecipeOutcome(genOutput, instacartUrl) ==
    IF ~genOutput.parses
    THEN [writes |-> <<>>, texts |-> <<>>,
          result |-> Fail("Failed to parse recipe from the AI response. Please try rephrasing your request.")]
    ELSE IF ~IsComplete(genOutput)
    THEN [writes |-> <<>>, texts |-> <<>>,
          result |-> Fail("The generated recipe was incomplete. Please try again with more details.")]
    ELSE LET recipe == [title |-> Get(genOutput.title),
                        ingredients |-> validateIngredients(Get(genOutput.ingredients)),
                        instructions |-> Get(genOutput.instructions),
                        servings |-> IF IsSome(genOutput.servings) /\ Get(genOutput.servings) # 0
                                     THEN genOutput.servings ELSE Some(DefaultServings)]
         IN [writes |-> <<[currentRecipe |-> Some(recipe), productsLinkUrl |-> instacartUrl]>>,
             texts |-> IF IsSome(instacartUrl) THEN <<LinkText(Get(instacartUrl))>> ELSE <<>>,
             result |-> Ok(IF IsSome(instacartUrl)
                           THEN "Instacart link: " \o Get(instacartUrl)
                           ELSE "Recipe created (Instacart link unavailable)",
                           Some([recipe |-> recipe, instacartUrl |-> instacartUrl]))]

----------------------------------------------------------------------------
(* InstacartService: its start, and the validate of the two actions that need it *)

\* where INSTACART_API_KEY can be: in each place absent, empty, or set
Configs == [setting : {None, Some(""), Some("key")}, env : {None, Some(""), Some("key")}]

\* a string that is there and not empty
Truthy(value) == IsSome(value) /\ Get(value) # ""

\* the service of the runtime: runtime.getService('instacart') gives the instance when
\* it runs, and nothing otherwise
NotStarted == [state |-> "unstarted", apiKey |-> ""]
StartFailed == [state |-> "failed", apiKey |-> ""]
Running(apiKey) == [state |-> "running", apiKey |-> apiKey]

\* a slip: the key is not tested
startAnyKey(settings) ==
    LET apiKey == IF IsSome(settings.setting) THEN settings.setting ELSE settings.env
    IN Running(IF IsSome(apiKey) THEN Get(apiKey) ELSE "undefined")

\* InstacartService.start(runtime): apiKey = getSetting(...) ?? process.env...; throws
\* if (!apiKey)
start(settings) ==
    LET apiKey == IF IsSome(settings.setting) THEN settings.setting ELSE settings.env
    IN IF ~Truthy(apiKey) THEN StartFailed ELSE Running(Get(apiKey))

\* validate of createRecipeAction and of planMealsAction: !!(getSetting(...) || process.env...)
validate(settings) ==
    LET key == IF Truthy(settings.setting) THEN settings.setting ELSE settings.env
    IN Truthy(key)

----------------------------------------------------------------------------
(* InstacartService: validation of an order and the request it sends *)

\* String.prototype.trim on the strings of the model
TrimString(str) ==
    CASE str = " " -> ""
      [] str = " cup " -> "cup"
      [] str = " Soup " -> "Soup"
      [] str = " Mix " -> "Mix"
      [] OTHER -> str

\* isNonEmptyString(value): value is undefined (None) or a string
isNonEmptyString(value) == IsSome(value) /\ TrimString(Get(value)) # ""

\* what a function did: returned a value, or threw an Error with a message
Returned(value) == [threw |-> FALSE, error |-> "", value |-> Some(value)]
Threw(error) == [threw |-> TRUE, error |-> error, value |-> None]

\* the filter callback of validateIngredient and of validateLineItem: false if
\* typeof m.quantity !== 'number' || m.quantity <= 0, false if the unit is blank
KeepMeasurement(m) ==
    /\ ~(m.quantity.typeof # "number" \/ LessOrEqualZero(m.quantity))
    /\ isNonEmptyString(Some(m.unit))

\* .filter(...).map((m) => ({ quantity: m.quantity, unit: m.unit.trim() }))
SanitisedMeasurements(measurements) ==
    LET kept == SelectSeq(measurements, KeepMeasurement)
    IN [i \in 1..Len(kept) |-> [quantity |-> kept[i].quantity, unit |-> TrimString(kept[i].unit)]]

\* validateIngredient(ingredient, index)
validateIngredient(ingredient, index) ==
    IF ~isNonEmptyString(ingredient.name)
    THEN Threw("Ingredient at index " \o ToString(index) \o " is missing a valid \"name\".")
    ELSE Returned(
           [name |-> Some(TrimString(Get(ingredient.name))),
            display_text |-> IF isNonEmptyString(ingredient.display_text)
                             THEN Some(TrimString(Get(ingredient.display_text))) ELSE None,
            measurements |-> IF IsSome(ingredient.measurements)
                                   /\ Len(Get(ingredient.measurements)) > 0
                             THEN Some(SanitisedMeasurements(Get(ingredient.measurements)))
                             ELSE None])

\* validateLineItem(item, index)
validateLineItem(item, index) ==
    IF ~isNonEmptyString(item.name)
    THEN Threw("Line item at index " \o ToString(index) \o " is missing a valid \"name\".")
    ELSE Returned(
           [name |-> Some(TrimString(Get(item.name))),
            display_text |-> IF isNonEmptyString(item.display_text)
                             THEN Some(TrimString(Get(item.display_text))) ELSE None,
            line_item_measurements |->
                IF IsSome(item.line_item_measurements)
                      /\ Len(Get(item.line_item_measurements)) > 0
                THEN Some(SanitisedMeasurements(Get(item.line_item_measurements)))
                ELSE None])

\* items.map((x, i) => validate(x, i)) on results: the first throw ends the map
FirstThrow(results) ==
    LET failed == {i \in 1..Len(results) : results[i].threw}
    IN IF failed = {} THEN None
       ELSE Some(results[CHOOSE i \in failed : \A j \in failed : i <= j])

\* REQUEST_TIMEOUT_MS / 1000
RequestTimeoutSeconds == 30

\* response.statusText
StatusText(status) ==
    CASE status = 200 -> "OK"
      [] status = 201 -> "Created"
      [] status = 404 -> "Not Found"
      [] OTHER -> "Internal Server Error"

\* response.ok
IsOk(status) == status \in 200..299

\* a response of the API.  data: what response.json() gives, None when the body is no
\* JSON; errorBody: what response.text() gives, None when it rejects
Response(status, data, errorBody) == [status |-> status, data |-> data, errorBody |-> errorBody]

\* the bodies of a response with a success status: no JSON, JSON without the link, with
\* a blank link, with a link
LinkData ==
    {None,
     Some([products_link_url |-> None]),
     Some([products_link_url |-> Some(" ")]),
     Some([products_link_url |-> Some("https://instacart.example/r1")])}

Responses ==
    {Response(status, data, None) : status \in {200, 201}, data \in LinkData}
    \cup {Response(status, None, errorBody) :
             status \in {404, 500}, errorBody \in {None, Some("overloaded")}}

\* an error as the catch block of apiRequest sees it
AbortError == [isDOMException |-> TRUE, name |-> "AbortError",
               message |-> "This operation was aborted"]
FetchError == [isDOMException |-> FALSE, name |-> "TypeError", message |-> "fetch failed"]
SyntaxError == [isDOMException |-> FALSE, name |-> "SyntaxError",
                message |-> "Unexpected token < in JSON at position 0"]
ErrorOf(message) == [isDOMException |-> FALSE, name |-> "Error", message |-> message]

\* a slip: the abort is thrown on as it came
CatchRethrowsAll(error) == Threw(error.message)

\* catch (error): the abort becomes the timeout error, every other error is thrown on
Catch(error) ==
    IF error.isDOMException /\ error.name = "AbortError"
    THEN Threw("Instacart API request timed out after " \o ToString(RequestTimeoutSeconds)
               \o " seconds.")
    ELSE Threw(error.message)

\* if (!response.ok): the error with the status and the body, as far as it could be read
StatusError(response, errorBody) ==
    ErrorOf("Instacart API returned " \o ToString(response.status) \o " "
            \o StatusText(response.status) \o ": "
            \o (IF IsSome(errorBody) THEN Get(errorBody) ELSE "<unable to read response body>"))

\* a slip: an answer without the link is returned as it is
AfterJsonAnyLink(data) ==
    IF ~IsSome(data) THEN Catch(SyntaxError)
    ELSE Returned([products_link_url |->
                      IF IsSome(Get(data).products_link_url)
                      THEN Get(Get(data).products_link_url) ELSE ""])

\* from `const data = await response.json()` on
AfterJson(data) ==
    IF ~IsSome(data) THEN Catch(SyntaxError)
    ELSE IF ~isNonEmptyString(Get(data).products_link_url)
    THEN Catch(ErrorOf("Instacart API response did not contain a valid products_link_url."))
    ELSE Returned([products_link_url |-> Get(Get(data).products_link_url)])

\* how the exchange of apiRequest can end: with a response, with the abort of the
\* timeout (before the response or while its JSON is read), or with a failure of the
\* transport
Fetched(response) == [kind |-> "response", response |-> Some(response)]
Aborted == [kind |-> "abort", response |-> None]
Failed == [kind |-> "failure", response |-> None]

HttpOutcomes ==
    {Fetched(Response(200, Some([products_link_url |-> Some("https://instacart.example/r1")]),
                      None)),
     Fetched(Response(200, Some([products_link_url |-> None]), None)),
     Fetched(Response(500, None, Some("overloaded"))),
     Fetched(Response(404, None, None)),
     Aborted,
     Failed}

\* apiRequest(endpoint, body), given how its exchange ended
apiRequest(http) ==
    IF http.kind = "abort" THEN Catch(AbortError)
    ELSE IF http.kind = "failure" THEN Catch(FetchError)
    ELSE IF ~IsOk(Get(http.response).status)
    THEN Catch(StatusError(Get(http.response), Get(http.response).errorBody))
    ELSE AfterJson(Get(http.response).data)

\* the instructions sent: trimmed, the empty ones dropped
NonEmpty(str) == str # ""
SanitisedInstructions(instructions) ==
    SelectSeq([i \in 1..Len(instructions) |-> TrimString(instructions[i])], NonEmpty)

\* a slip: the test of the sanitised instructions is missing
createRecipeNoInstructionTest(recipe, http) ==
    IF ~isNonEmptyString(recipe.title)
    THEN [posts |-> <<>>,
          result |-> Threw("[InstacartService] Recipe title must be a non-empty string.")]
    ELSE IF ~IsSome(recipe.ingredients) \/ Len(Get(recipe.ingredients)) = 0
    THEN [posts |-> <<>>,
          result |-> Threw("[InstacartService] Recipe must contain at least one ingredient.")]
    ELSE IF ~IsSome(recipe.instructions) \/ Len(Get(recipe.instructions)) = 0
    THEN [posts |-> <<>>,
          result |-> Threw("[InstacartService] Recipe must contain at least one instruction step.")]
    ELSE LET validated == [i \in 1..Len(Get(recipe.ingredients)) |->
                              validateIngredient(Get(recipe.ingredients)[i], i - 1)]
             instructions == SanitisedInstructions(Get(recipe.instructions))
         IN IF IsSome(FirstThrow(validated))
            THEN [posts |-> <<>>, result |-> Get(FirstThrow(validated))]
            ELSE [posts |-> <<[endpoint |-> "/products/recipe",
                               title |-> TrimString(Get(recipe.title)),
                               link_type |-> "recipe",
                               ingredients |-> [i \in 1..Len(validated) |->
                                                   Get(validated[i].value)],
                               instructions |-> instructions]>>,
                  result |-> apiRequest(http)]

\* InstacartService.createRecipe(recipe): the POSTs it issues and how it ends.  A None
\* field of recipe is absent, or (ingredients, instructions) no array.  Of the body, the
\* image_url and the landing_page_configuration are the same in every request.
createRecipe(recipe, http) ==
    IF ~isNonEmptyString(recipe.title)
    THEN [posts |-> <<>>,
          result |-> Threw("[InstacartService] Recipe title must be a non-empty string.")]
    ELSE IF ~IsSome(recipe.ingredients) \/ Len(Get(recipe.ingredients)) = 0
    THEN [posts |-> <<>>,
          result |-> Threw("[InstacartService] Recipe must contain at least one ingredient.")]
    ELSE IF ~IsSome(recipe.instructions) \/ Len(Get(recipe.instructions)) = 0
    THEN [posts |-> <<>>,
          result |-> Threw("[InstacartService] Recipe must contain at least one instruction step.")]
    ELSE LET validated == [i \in 1..Len(Get(recipe.ingredients)) |->
                              validateIngredient(Get(recipe.ingredients)[i], i - 1)]
             instructions == SanitisedInstructions(Get(recipe.instructions))
         IN IF IsSome(FirstThrow(validated))
            THEN [posts |-> <<>>, result |-> Get(FirstThrow(validated))]
            ELSE IF Len(instructions) = 0
            THEN [posts |-> <<>>,
                  result |-> Threw("[InstacartService] Recipe instructions must contain at least one non-empty step.")]
            ELSE [posts |-> <<[endpoint |-> "/products/recipe",
                               title |-> TrimString(Get(recipe.title)),
                               link_type |-> "recipe",
                               ingredients |-> [i \in 1..Len(validated) |->
                                                   Get(validated[i].value)],
                               instructions |-> instructions]>>,
                  result |-> apiRequest(http)]

\* InstacartService.createShoppingList(title, items)
createShoppingList(title, items, http) ==
    IF ~isNonEmptyString(title)
    THEN [posts |-> <<>>,
          result |-> Threw("[InstacartService] Shopping list title must be a non-empty string.")]
    ELSE IF ~IsSome(items) \/ Len(Get(items)) = 0
    THEN [posts |-> <<>>,
          result |-> Threw("[InstacartService] Shopping list must contain at least one item.")]
    ELSE LET validated == [i \in 1..Len(Get(items)) |-> validateLineItem(Get(items)[i], i - 1)]
         IN IF IsSome(FirstThrow(validated))
            THEN [posts |-> <<>>, result |-> Get(FirstThrow(validated))]
            ELSE [posts |-> <<[endpoint |-> "/products/products_link",
                               title |-> TrimString(Get(title)),
                               link_type |-> "shopping_list",
                               line_items |-> [i \in 1..Len(validated) |->
                                                  Get(validated[i].value)]]>>,
                  result |-> apiRequest(http)]

----------------------------------------------------------------------------
(* The order the create-recipe and the plan-meals handlers place: what they  *)
(* make of the generation output before they hand it to the order client     *)

\* plan-meals: validateLineItems, one line item
ValidatedLineItem(item) ==
    LET measurements == PositiveQuantities(IF IsSome(item.line_item_measurements)
                                           THEN Get(item.line_item_measurements) ELSE <<>>)
    IN [item EXCEPT !.line_item_measurements =
            IF Len(measurements) = 0 THEN Some(<<[quantity |-> Number(1), unit |-> "unit"]>>)
            ELSE Some(measurements)]

validateLineItems(items) == [i \in 1..Len(items) |-> ValidatedLineItem(items[i])]

\* plan-meals: title && Array.isArray(days) && days.length > 0 && Array.isArray(consolidatedList)
PlanIsComplete(planData) ==
    /\ IsSome(planData.title) /\ Get(planData.title) # ""
    /\ IsSome(planData.days) /\ Len(Get(planData.days)) > 0
    /\ IsSome(planData.consolidatedList)

\* the handler did not call the order client: it returned before, or
\* runtime.getService('instacart') gave it no instance
NoOrder == [called |-> FALSE, given |-> None, posts |-> <<>>, result |-> Returned("")]

\* create-recipe: recipe.ingredients = validateIngredients(...), then
\* instacart.createRecipe(recipe); given is the list the client is handed
RecipeOrder(genOutput, http) ==
    IF ~genOutput.parses \/ ~IsComplete(genOutput) THEN NoOrder
    ELSE LET ingredients == validateIngredients(Get(genOutput.ingredients))
             call == createRecipe([title |-> genOutput.title,
                                   ingredients |-> Some(ingredients),
                                   instructions |-> genOutput.instructions], http)
         IN [called |-> TRUE, given |-> Some(ingredients),
             posts |-> call.posts, result |-> call.result]

\* plan-meals: consolidatedList = validateLineItems(...), then
\* instacart.createShoppingList(mealPlan.title, mealPlan.consolidatedList)
ShoppingListOrder(planData, http) ==
    IF ~planData.parses \/ ~PlanIsComplete(planData) THEN NoOrder
    ELSE LET consolidatedList == validateLineItems(Get(planData.consolidatedList))
             call == createShoppingList(planData.title, Some(consolidatedList), http)
         IN [called |-> TRUE, given |-> Some(consolidatedList),
             posts |-> call.posts, result |-> call.result]

\* instacartUrl = result.products_link_url, undefined when the call threw or was not made
InstacartUrlOf(order) ==
    IF order.called /\ ~order.result.threw
    THEN Some(Get(order.result.value).products_link_url) ELSE None

PlanLinkText(url) ==
    "**[Order all ingredients on Instacart](" \o url \o ")** -- one click to get everything delivered!"

\* plan-meals handler.  instacartUrl: the link the order service returned, None when it
\* is absent or failed.  Of a day its name is kept; its meals and the mealPlanText made
\* of them are read by no test of the handler.
PlanMealsOutcome(planData, instacartUrl) ==
    IF ~planData.parses
    THEN [writes |-> <<>>, texts |-> <<>>,
          result |-> Fail("Failed to parse the meal plan from the AI response. Please try rephrasing your request.")]
    ELSE IF ~PlanIsComplete(planData)
    THEN [writes |-> <<>>, texts |-> <<>>,
          result |-> Fail("The generated meal plan was incomplete. Please try again with more details about how many days and dietary preferences.")]
    ELSE LET consolidatedList == validateLineItems(Get(planData.consolidatedList))
             mealPlan == [title |-> Get(planData.title), days |-> Get(planData.days),
                          consolidatedList |-> consolidatedList]
         IN [writes |-> <<[currentMealPlan |-> Some(mealPlan), productsLinkUrl |-> instacartUrl]>>,
             texts |-> IF IsSome(instacartUrl) THEN <<PlanLinkText(Get(instacartUrl))>> ELSE <<>>,
             result |-> Ok(IF IsSome(instacartUrl)
                           THEN "Instacart link: " \o Get(instacartUrl)
                           ELSE "Meal plan created (Instacart link unavailable)",
                           Some([mealPlan |-> mealPlan, instacartUrl |-> instacartUrl,
                                 totalDays |-> Len(Get(planData.days)),
                                 totalItems |-> Len(consolidatedList)]))]

----------------------------------------------------------------------------
(* The cache of the runtime, shared by the handlers of every room.  A handler *)
(* is suspended at each await: updateKitchenState reads (await                *)
(* getKitchenState), and writes the merged object in a later step (await      *)
(* cacheManager.set), so other handlers run in between.                       *)

RoomIds == {"roomA", "roomB"}

\* the handler invocations at work at the same time
Procs == {"h1", "h2"}

\* a slip: the key does not depend on the room
getCacheKeyShared(roomId) == "kitchen_state_"

\* const getCacheKey = (roomId) => `kitchen_state_${roomId}`
getCacheKey(roomId) == "kitchen_state_" \o roomId

CacheKeys == {getCacheKey(roomId) : roomId \in RoomIds}

\* the updates the handlers pass: a new session, the end of a session, a recipe with its link
Patches ==
    LET recipe == Get(QuickRecipe(Complete(2)))
    IN {[cookingSession |-> Some(NewSession(recipe, 0))],
        [cookingSession |-> None],
        [currentRecipe |-> Some(recipe),
         productsLinkUrl |-> Some("https://instacart.example/r1")]}

\* a slip: the merge is redone on the value stored at the time of the write
setMergedAtomic(stored, current, updates) ==
    Object(Merge(getKitchenStateOf(Resolved(stored)).value.fields, updates))

\* cacheManager.set(cacheKey, merged): merged was built from `current`, the state read
\* before; `stored`, the value under the key at the time of the write, is replaced
setMerged(stored, current, updates) == Object(Merge(current, updates))

\* a handler outside updateKitchenState, having made `calls` calls of it
NoCall ==
    [pc |-> "idle", roomId |-> "", updates |-> None, current |-> EmptyKitchenState,
     missed |-> {}, readThrew |-> FALSE, calls |-> 0]

\* last: op is the step ("get": a getKitchenState call, "read" and "write": the two steps
\* of updateKitchenState, "put": a value set by another user of the cache); read is how
\* the cache read settled, result what getKitchenState returned; current and updates are
\* the state a write was built from and its patch, missed the patches other handlers
\* wrote to the key between that read and the write; before is the cache before the step.
\* written, named and serial are kept from step to step: per room the value last set, per
\* room and field the value of the last patch that named it, and whether every merge
\* of the room so far read successfully and missed nothing.
NoStep ==
    [op |-> "none", roomId |-> "", read |-> Resolved(Undefined), result |-> Resolved(Undefined),
     updates |-> None, current |-> EmptyKitchenState, missed |-> {}, readThrew |-> FALSE,
     before |-> [k \in CacheKeys |-> Undefined],
     written |-> [r \in RoomIds |-> Undefined],
     named |-> [r \in RoomIds |-> EmptyKitchenState],
     serial |-> [r \in RoomIds |-> TRUE]]

\* how `await runtime.cacheManager?.get(cacheKey)` can settle
CacheReads(roomId) == {Resolved(store[getCacheKey(roomId)]), Rejected}

----------------------------------------------------------------------------
(* Inputs *)

\* utterances the cook-along handler is tried on: "Okay, DONE" and one or two per command
SampleTexts ==
    {<<"next">>, <<"Okay", ",", "DONE">>, <<"done">>, <<"go", "back">>, <<"again">>,
     <<"ready">>, <<"progress">>, <<"supplies">>, <<"hello">>}

\* inference responses: the closed vocabulary in several spellings, and free text
LlmResponses ==
    {<<"N", "E", "X", "T">>,
     <<" ", "n", "e", "x", "t", "\n">>,
     <<"P", "r", "e", "v", "i", "o", "u", "s">>,
     <<"R", "E", "P", "E", "A", "T">>,
     <<"d", "o", "n", "e">>,
     <<"N", "E", "X", "T", ".">>,
     <<" ", "S", "t", "i", "r", " ", "i", "t", ".", "\n">>}

\* what the order service gave the create-recipe handler
InstacartUrls == {None, Some("https://instacart.example/r1")}

\* the classifier's vocabulary and inputs
Vocabulary ==
    {"done", "DONE", "Okay", ",", "next", "go", "on", "back", "last", "step",
     "again", "ready", "what", "progress", "supplies", "hello"}

RECURSIVE SeqsUpTo(_, _)
SeqsUpTo(S, n) ==
    IF n = 0 THEN {<<>>}
    ELSE LET shorter == SeqsUpTo(S, n - 1)
         IN shorter \cup {Append(q, x) : q \in shorter, x \in S}

Utterances == SeqsUpTo(Vocabulary, MaxWords)

\* ingredients an order is tried on: the three of the sample recipe; one with five
\* measurements of which two are good; one without a name and one with a blank name;
\* one whose only measurement has no unit; one with an empty list of measurements; one
\* whose quantity is NaN
SampleIngredients ==
    {Ingredients[1], Ingredients[2], Ingredients[3],
     [name |-> Some("rice"), display_text |-> Some(" "),
      measurements |-> Some(<<[quantity |-> Number(-1), unit |-> "cup"],
                              [quantity |-> Number(2), unit |-> " cup "],
                              [quantity |-> NumericString(2), unit |-> "tsp"],
                              [quantity |-> Number(3), unit |-> " "],
                              [quantity |-> Number(1), unit |-> "g"]>>)],
     [name |-> None, display_text |-> None,
      measurements |-> Some(<<[quantity |-> Number(1), unit |-> "cup"]>>)],
     [name |-> Some(" "), display_text |-> None, measurements |-> None],
     [name |-> Some("sugar"), display_text |-> None,
      measurements |-> Some(<<[quantity |-> Number(1), unit |-> ""]>>)],
     [name |-> Some("oil"), display_text |-> None, measurements |-> Some(<<>>)],
     [name |-> Some("milk"), display_text |-> None,
      measurements |-> Some(<<[quantity |-> NaN, unit |-> "cup"]>>)]}

\* the same as a line item of a shopping list
LineItem(ing) ==
    [name |-> ing.name, display_text |-> ing.display_text,
     line_item_measurements |-> ing.measurements]

\* None: no array at all
IngredientLists == {None} \cup {Some(l) : l \in SeqsUpTo(SampleIngredients, MaxItems)}
LineItemLists ==
    {None} \cup {Some(l) : l \in SeqsUpTo({LineItem(ing) : ing \in SampleIngredients}, MaxItems)}

Titles == {None, Some(" "), Some("Soup"), Some(" Soup ")}

InstructionLists ==
    {None, Some(<<>>), Some(<<" ", "">>), Some(<<" Mix ", " ">>), Some(Instructions(2))}

DayLists == {None, Some(<<>>), Some(<<"Monday">>)}

\* the chat hook as useChat mounts it: no message, not loading, no controller (0), no
\* request made; nextId stands for generateMessageId, which never repeats
NoChat ==
    [messages |-> <<>>, isLoading |-> FALSE, error |-> None, controller |-> 0,
     requests |-> <<>>, nextId |-> 1]

\* no apiRequest under way
NoApiCall ==
    [pc |-> "idle", endpoint |-> "", elapsed |-> 0, timer |-> "none", fetches |-> 0,
     response |-> None, aborted |-> FALSE, result |-> None]

\* an order asked for: of the order client itself (via "client"), or of a handler that was
\* given the generation output (via "action")
NoRequest ==
    [via |-> "none", kind |-> "none", title |-> None, items |-> None, instructions |-> None,
     days |-> None]

Requests ==
    {[via |-> via, kind |-> "recipe", title |-> title, items |-> items,
      instructions |-> instructions, days |-> None] :
        via \in {"client", "action"}, title \in Titles, items \in IngredientLists,
        instructions \in InstructionLists}
    \cup {[via |-> "client", kind |-> "list", title |-> title, items |-> items,
           instructions |-> None, days |-> None] :
             title \in Titles, items \in LineItemLists}
    \cup {[via |-> "action", kind |-> "list", title |-> title, items |-> items,
           instructions |-> None, days |-> days] :
             title \in Titles, items \in LineItemLists, days \in DayLists}

----------------------------------------------------------------------------
(* The state machine *)

\* trace: the last handler invocation.  action, mode (CASE A "navigate" / CASE B "begin"),
\* navCommand, llm and gen (the generation output, when one was asked for) are what it was
\* given; kitchenState is the state it read; again: it is a repeat that follows a repeat;
\* writes, texts and result are what it did; broke: the collaborator call that threw into
\* the catch block of the handler ("inference", "write", "callback"), when one did.
NoTrace ==
    [action |-> "none", mode |-> "none", navCommand |-> "none", llm |-> None, gen |-> None,
     kitchenState |-> EmptyKitchenState, again |-> FALSE,
     writes |-> <<>>, texts |-> <<>>, result |-> Fail(""), broke |-> None]

HasSession == IsSome(getKitchenState(cache).cookingSession)
Session == Get(getKitchenState(cache).cookingSession)

\* nothing cached under any key, no handler inside updateKitchenState
StoreInit ==
    /\ store = [k \in CacheKeys |-> Undefined]
    /\ procs = [p \in Procs |-> NoCall]
    /\ last = NoStep

\* no order asked for
OrderInit ==
    /\ request = NoRequest
    /\ posts = <<>>
    /\ outcome = None

\* the agent is up: the key is in the settings, the service runs, no request under way
AgentInit ==
    /\ config = [setting |-> Some("key"), env |-> None]
    /\ service = start(config)
    /\ apiCall = NoApiCall
    /\ thrown = None
    /\ chat = NoChat

Init ==
    /\ cache = None
    /\ now = 0
    /\ trace = NoTrace
    /\ userText = <<>>
    /\ navResult = "unset"
    /\ StoreInit
    /\ OrderInit
    /\ AgentInit

\* the handler returned, from its body (broke = None) or from its catch block: the writes
\* it completed reach the cache in order
FinishAfter(action, mode, navCommand, llm, gen, out, broke) ==
    /\ cache' = ApplyWrites(cache, out.writes)
    /\ trace' = [action |-> action, mode |-> mode, navCommand |-> navCommand, llm |-> llm,
                 gen |-> gen,
                 kitchenState |-> getKitchenState(cache),
                 again |-> /\ mode = "navigate" /\ navCommand = "repeat"
                           /\ trace.action = action
                           /\ trace.mode = mode
                           /\ trace.navCommand = navCommand,
                 writes |-> out.writes, texts |-> out.texts, result |-> out.result,
                 broke |-> broke]

\* the handler ran to its return
Finish(action, mode, navCommand, llm, gen, out) ==
    FinishAfter(action, mode, navCommand, llm, gen, out, None)

\* cookAlongAction.handler on one message
CookAlong ==
    /\ UNCHANGED <<userText, navResult, store, procs, last, request, posts, outcome, agentVars>>
    /\ \E text \in SampleTexts :
        LET kitchenState == getKitchenState(cache)
            navCommand == detectNavCommand(text)
        IN IF IsSome(kitchenState.cookingSession)
           THEN /\ IF navCommand = "none"
                   THEN \E llmResponse \in LlmResponses :
                            Finish("cookAlong", "navigate", navCommand, Some(llmResponse), None,
                                   Navigate(Get(kitchenState.cookingSession), navCommand,
                                            llmResponse))
                   ELSE Finish("cookAlong", "navigate", navCommand, None, None,
                               Navigate(Get(kitchenState.cookingSession), navCommand, <<>>))
                /\ now' = now
           ELSE /\ now < MaxTime
                /\ IF IsSome(kitchenState.currentRecipe)
                   THEN Finish("cookAlong", "begin", navCommand, None, None,
                               BeginSession(kitchenState, Unparsable, now))
                   ELSE \E genOutput \in GenOutputs :
                            Finish("cookAlong", "begin", navCommand, None, Some(genOutput),
                                   BeginSession(kitchenState, genOutput, now))
                /\ now' = now + 1

\* createRecipeAction.handler on one message
CreateRecipe ==
    /\ \E genOutput \in GenOutputs :
           IF genOutput.parses /\ IsComplete(genOutput)
           THEN \E instacartUrl \in InstacartUrls :
                    Finish("createRecipe", "none", "none", None, Some(genOutput),
                           CreateRecipeOutcome(genOutput, instacartUrl))
           ELSE Finish("createRecipe", "none", "none", None, Some(genOutput),
                       CreateRecipeOutcome(genOutput, None))
    /\ UNCHANGED <<now, userText, navResult, store, procs, last, request, posts, outcome, agentVars>>

Next == CookAlong \/ CreateRecipe

Spec == Init /\ [][Next]_vars

----------------------------------------------------------------------------
(* A stored session altered from outside the program *)

\* the step indexes outside [0, totalSteps) within MaxSkew of it
OutOfRange(totalSteps) ==
    {0 - d : d \in 1..MaxSkew} \cup {totalSteps + d - 1 : d \in 1..MaxSkew}

\* what the handler reads back is whatever the cache holds: another writer of the key
\* has replaced currentStep by an index out of range
Tamper ==
    /\ HasSession
    /\ \E step \in OutOfRange(Len(Session.recipe.instructions)) :
           cache' = updateKitchenState(cache,
                        [cookingSession |-> Some([Session EXCEPT !.currentStep = step])])
    /\ trace' = [NoTrace EXCEPT !.action = "tamper"]
    /\ UNCHANGED <<now, userText, navResult, store, procs, last, request, posts, outcome, agentVars>>

NextTamper == CookAlong \/ Tamper

SpecTamper == Init /\ [][NextTamper]_vars

----------------------------------------------------------------------------
(* The store alone: getKitchenState and updateKitchenState calls of handlers    *)
(* of two rooms, interleaved at their awaits                                    *)

\* the state a handler of the room would be given now by a cache read that succeeds
StoredState(roomId) == getKitchenStateOf(Resolved(store[getCacheKey(roomId)])).value.fields

\* the updateKitchenState calls made so far
RECURSIVE CallsOf(_)
CallsOf(ps) ==
    IF ps = {} THEN 0
    ELSE LET p == CHOOSE q \in ps : TRUE IN procs[p].calls + CallsOf(ps \ {p})

\* getKitchenState(runtime, roomId), called by a handler
GetState ==
    /\ \E roomId \in RoomIds : \E read \in CacheReads(roomId) :
           last' = [last EXCEPT !.op = "get", !.roomId = roomId, !.read = read,
                                !.result = getKitchenStateOf(read),
                                !.updates = None, !.current = EmptyKitchenState,
                                !.missed = {}, !.readThrew = read.threw, !.before = store]
    /\ UNCHANGED <<store, procs, cache, now, trace, userText, navResult, request, posts, outcome, agentVars>>

\* updateKitchenState, up to `const current = await getKitchenState(runtime, roomId)`
UpdateRead(p) ==
    /\ procs[p].pc = "idle"
    /\ CallsOf(Procs) < MaxCalls
    /\ \E roomId \in RoomIds : \E updates \in Patches : \E read \in CacheReads(roomId) :
           LET got == getKitchenStateOf(read)
           IN /\ procs' = [procs EXCEPT ![p] =
                              IF got.threw
                              THEN [NoCall EXCEPT !.calls = procs[p].calls + 1]
                              ELSE [pc |-> "write", roomId |-> roomId,
                                    updates |-> Some(updates),
                                    current |-> got.value.fields, missed |-> {},
                                    readThrew |-> read.threw,
                                    calls |-> procs[p].calls + 1]]
              /\ last' = [last EXCEPT !.op = "read", !.roomId = roomId, !.read = read,
                                      !.result = got, !.updates = Some(updates),
                                      !.current = EmptyKitchenState, !.missed = {},
                                      !.readThrew = read.threw, !.before = store]
    /\ UNCHANGED <<store, cache, now, trace, userText, navResult, request, posts, outcome, agentVars>>

\* updateKitchenState, from `const merged = { ...current, ...updates }` to the end
UpdateWrite(p) ==
    /\ procs[p].pc = "write"
    /\ LET me == procs[p]
           key == getCacheKey(me.roomId)
           merged == setMerged(store[key], me.current, Get(me.updates))
       IN /\ store' = [store EXCEPT ![key] = merged]
          /\ procs' = [q \in Procs |->
                          IF q = p THEN [NoCall EXCEPT !.calls = me.calls]
                          ELSE IF procs[q].pc = "write" /\ getCacheKey(procs[q].roomId) = key
                          THEN [procs[q] EXCEPT !.missed = @ \cup {Get(me.updates)}]
                          ELSE procs[q]]
          /\ last' = [last EXCEPT
                         !.op = "write", !.roomId = me.roomId, !.updates = me.updates,
                         !.read = Resolved(Undefined), !.result = Resolved(Undefined),
                         !.current = me.current, !.missed = me.missed,
                         !.readThrew = me.readThrew, !.before = store,
                         !.written = [@ EXCEPT ![me.roomId] = merged],
                         !.named = [@ EXCEPT ![me.roomId] =
                                       [f \in KitchenFields |->
                                           IF f \in DOMAIN Get(me.updates)
                                           THEN Get(me.updates)[f] ELSE @[f]]],
                         !.serial = [@ EXCEPT ![me.roomId] =
                                        @ /\ me.missed = {} /\ ~me.readThrew]]
    /\ UNCHANGED <<cache, now, trace, userText, navResult, request, posts, outcome, agentVars>>

\* another user of the cache left a value that is no object under a key that had none
ForeignPut ==
    /\ \E roomId \in RoomIds : \E value \in {Null, StringValue} :
           /\ store[getCacheKey(roomId)] = Undefined
           /\ store' = [store EXCEPT ![getCacheKey(roomId)] = value]
           /\ last' = [last EXCEPT !.op = "put", !.roomId = roomId,
                                   !.read = Resolved(Undefined),
                                   !.result = Resolved(Undefined),
                                   !.updates = None, !.current = EmptyKitchenState,
                                   !.missed = {}, !.readThrew = FALSE, !.before = store,
                                   !.written = [@ EXCEPT ![roomId] = value]]
    /\ UNCHANGED <<procs, cache, now, trace, userText, navResult, request, posts, outcome, agentVars>>

NextStore ==
    \/ GetState
    \/ \E p \in Procs : UpdateRead(p)
    \/ \E p \in Procs : UpdateWrite(p)
    \/ ForeignPut

SpecStore == Init /\ [][NextStore]_vars

----------------------------------------------------------------------------
(* The order client and the two handlers that call it, on every request *)

\* the room's state when the order is asked for: nothing stored, or the recipe and the
\* link an earlier create-recipe left
EarlierStates ==
    {None,
     ApplyWrites(None, CreateRecipeOutcome(Complete(1),
                                           Some("https://instacart.example/r0")).writes)}

InitOrder ==
    /\ request \in Requests
    /\ cache \in IF request.via = "action" THEN EarlierStates ELSE {None}
    /\ now = 0
    /\ trace = NoTrace
    /\ userText = <<>>
    /\ navResult = "unset"
    /\ StoreInit
    /\ posts = <<>>
    /\ outcome = None
    /\ AgentInit

\* the POSTs of the order went out, and the call returned or threw
OrderedRetrying(order) ==
    /\ posts' = posts \o order.posts \o (IF order.result.threw THEN order.posts ELSE <<>>)
    /\ outcome' = Some([called |-> order.called, given |-> order.given,
                         result |-> order.result, instacartUrl |-> InstacartUrlOf(order)])

\* the handler's one `await instacart.createRecipe(recipe)` (createShoppingList), or a
\* direct call of the client: the bodies it posted and how it ended
Ordered(order) ==
    /\ posts' = posts \o order.posts
    /\ outcome' = Some([called |-> order.called, given |-> order.given,
                         result |-> order.result, instacartUrl |-> InstacartUrlOf(order)])

\* the call of the client is over
Placed(order) ==
    /\ Ordered(order)
    /\ UNCHANGED <<cache, now, trace, userText, navResult, store, procs, last, request, agentVars>>

\* InstacartService.createRecipe(recipe), called as it stands
CallCreateRecipe ==
    /\ outcome = None /\ request.via = "client" /\ request.kind = "recipe"
    /\ service.state = "running"
    /\ \E http \in HttpOutcomes :
           LET call == createRecipe([title |-> request.title, ingredients |-> request.items,
                                     instructions |-> request.instructions], http)
           IN Placed([called |-> TRUE, given |-> request.items,
                      posts |-> call.posts, result |-> call.result])

\* InstacartService.createShoppingList(title, items), called as it stands
CallCreateShoppingList ==
    /\ outcome = None /\ request.via = "client" /\ request.kind = "list"
    /\ service.state = "running"
    /\ \E http \in HttpOutcomes :
           LET call == createShoppingList(request.title, request.items, http)
           IN Placed([called |-> TRUE, given |-> request.items,
                      posts |-> call.posts, result |-> call.result])

\* createRecipeAction.handler on the generation output of the request: the order, the
\* write to KitchenState, the follow-up with the link, the result
OrderRecipe ==
    /\ outcome = None /\ request.via = "action" /\ request.kind = "recipe"
    /\ service.state # "unstarted"
    /\ \E http \in HttpOutcomes :
           LET genOutput == [parses |-> TRUE, title |-> request.title,
                             ingredients |-> request.items,
                             instructions |-> request.instructions, servings |-> None]
               order == IF service.state = "running" THEN RecipeOrder(genOutput, http)
                        ELSE NoOrder
           IN /\ Ordered(order)
              /\ Finish("createRecipe", "none", "none", None, Some(genOutput),
                        CreateRecipeOutcome(genOutput, InstacartUrlOf(order)))
    /\ UNCHANGED <<now, userText, navResult, store, procs, last, request, agentVars>>

\* planMealsAction.handler on the generation output of the request
OrderShoppingList ==
    /\ outcome = None /\ request.via = "action" /\ request.kind = "list"
    /\ service.state # "unstarted"
    /\ \E http \in HttpOutcomes :
           LET planData == [parses |-> TRUE, title |-> request.title, days |-> request.days,
                            consolidatedList |-> request.items]
               order == IF service.state = "running" THEN ShoppingListOrder(planData, http)
                        ELSE NoOrder
           IN /\ Ordered(order)
              /\ Finish("planMeals", "none", "none", None, Some(planData),
                        PlanMealsOutcome(planData, InstacartUrlOf(order)))
    /\ UNCHANGED <<now, userText, navResult, store, procs, last, request, agentVars>>

NextOrder ==
    \/ CallCreateRecipe
    \/ CallCreateShoppingList
    \/ OrderRecipe
    \/ OrderShoppingList

SpecOrder == InitOrder /\ [][NextOrder]_vars

----------------------------------------------------------------------------
(* The handlers when a collaborator fails: the inference call, a write of the  *)
(* cache, the reply callback                                                   *)

\* what a collaborator throws: an Error with a message, or a value that is no Error
Faults == {[isError |-> TRUE, message |-> "boom"], [isError |-> FALSE, message |-> ""]}

\* catch (error): error instanceof Error ? error.message : 'An unexpected error occurred'
ErrMsg(fault) == IF fault.isError THEN fault.message ELSE "An unexpected error occurred"

\* the text the catch block of each handler puts before the message
Sorry(action) ==
    CASE action = "cookAlong" -> "Sorry, something went wrong with the cook-along: "
      [] action = "createRecipe" -> "Sorry, I couldn't create that recipe: "
      [] action = "planMeals" -> "Sorry, I couldn't create that meal plan: "

Repeat(kind, n) == [i \in 1..n |-> kind]

\* a slip: the texts go out before the writes
ScriptRepliesFirst(action, mode, infers, out) ==
    (IF infers THEN <<"inference">> ELSE <<>>) \o Repeat("callback", Len(out.texts))
        \o Repeat("write", Len(out.writes))

\* the awaited collaborator calls of a run that ends in out, in the order of the source.
\* A new session without a stored recipe sends its first text, then infers, then writes
\* and sends the rest; every other run infers first (when it does), then writes, then
\* sends its texts.  getKitchenState catches its own errors and the order call sits in
\* a try/catch of its own, so neither is a place where the run can break off.
Script(action, mode, infers, out) ==
    IF action = "cookAlong" /\ mode = "begin" /\ infers
    THEN <<"callback", "inference">> \o Repeat("write", Len(out.writes))
            \o Repeat("callback", Len(out.texts) - 1)
    ELSE (IF infers THEN <<"inference">> ELSE <<>>) \o Repeat("write", Len(out.writes))
            \o Repeat("callback", Len(out.texts))

Count(script, kind) == Cardinality({i \in 1..Len(script) : script[i] = kind})

\* the k-th call throws fault: the calls before it took effect, the catch block of the
\* handler returns the failure
Interrupted(action, script, out, k, fault) ==
    LET before == SubSeq(script, 1, k - 1)
    IN [writes |-> SubSeq(out.writes, 1, Count(before, "write")),
        texts |-> SubSeq(out.texts, 1, Count(before, "callback")),
        result |-> Fail(Sorry(action) \o ErrMsg(fault))]

\* try { ... } catch (error) { return { success: false, error } } around a whole
\* handler: the run ends in out (k = 0), or its k-th collaborator call throws
TryCatch(action, mode, navCommand, llm, gen, out) ==
    LET script == Script(action, mode, IsSome(llm) \/ IsSome(gen), out)
    IN /\ \E k \in 0..Len(script) :
              IF k = 0
              THEN Finish(action, mode, navCommand, llm, gen, out)
              ELSE \E fault \in Faults :
                       LET inferred == \E i \in 1..(k - 1) : script[i] = "inference"
                       IN FinishAfter(action, mode, navCommand,
                                      IF inferred THEN llm ELSE None,
                                      IF inferred THEN gen ELSE None,
                                      Interrupted(action, script, out, k, fault),
                                      Some(script[k]))
       /\ thrown' = None

FaultTexts == {<<"next">>, <<"hello">>, <<"go", "back">>, <<"ready">>, <<"done">>}
FaultLlmResponses == {<<"N", "E", "X", "T">>, <<" ", "S", "t", "i", "r", " ", "i", "t", ".", "\n">>}
FaultGenOutputs == {Complete(1), Complete(2), Unparsable}
FaultPlans ==
    {[parses |-> TRUE, title |-> Some("Week"), days |-> Some(<<"Monday">>),
      consolidatedList |-> Some(<<LineItem(Ingredients[1])>>)],
     [parses |-> FALSE, title |-> None, days |-> None, consolidatedList |-> None]}

\* cookAlongAction.handler, its collaborators failing or not
CookAlongTry ==
    /\ UNCHANGED <<userText, navResult, store, procs, last, request, posts, outcome,
                   config, service, apiCall, chat>>
    /\ \E text \in FaultTexts :
        LET kitchenState == getKitchenState(cache)
            navCommand == detectNavCommand(text)
        IN IF IsSome(kitchenState.cookingSession)
           THEN /\ IF navCommand = "none"
                   THEN \E llmResponse \in FaultLlmResponses :
                            TryCatch("cookAlong", "navigate", navCommand, Some(llmResponse),
                                     None,
                                     Navigate(Get(kitchenState.cookingSession), navCommand,
                                              llmResponse))
                   ELSE TryCatch("cookAlong", "navigate", navCommand, None, None,
                                 Navigate(Get(kitchenState.cookingSession), navCommand, <<>>))
                /\ now' = now
           ELSE /\ now < MaxTime
                /\ IF IsSome(kitchenState.currentRecipe)
                   THEN TryCatch("cookAlong", "begin", navCommand, None, None,
                                 BeginSession(kitchenState, Unparsable, now))
                   ELSE \E genOutput \in FaultGenOutputs :
                            TryCatch("cookAlong", "begin", navCommand, None, Some(genOutput),
                                     BeginSession(kitchenState, genOutput, now))
                /\ now' = now + 1

\* createRecipeAction.handler, its collaborators failing or not
CreateRecipeTry ==
    /\ \E genOutput \in FaultGenOutputs :
           IF genOutput.parses /\ IsComplete(genOutput)
           THEN \E instacartUrl \in InstacartUrls :
                    TryCatch("createRecipe", "none", "none", None, Some(genOutput),
                             CreateRecipeOutcome(genOutput, instacartUrl))
           ELSE TryCatch("createRecipe", "none", "none", None, Some(genOutput),
                         CreateRecipeOutcome(genOutput, None))
    /\ UNCHANGED <<now, userText, navResult, store, procs, last, request, posts, outcome,
                   config, service, apiCall, chat>>

\* planMealsAction.handler, its collaborators failing or not
PlanMealsTry ==
    /\ \E planData \in FaultPlans :
           IF planData.parses /\ PlanIsComplete(planData)
           THEN \E instacartUrl \in InstacartUrls :
                    TryCatch("planMeals", "none", "none", None, Some(planData),
                             PlanMealsOutcome(planData, instacartUrl))
           ELSE TryCatch("planMeals", "none", "none", None, Some(planData),
                         PlanMealsOutcome(planData, None))
    /\ UNCHANGED <<now, userText, navResult, store, procs, last, request, posts, outcome,
                   config, service, apiCall, chat>>

\* what the callback handed to a handler does when it is called
Callbacks == {"absent", "resolves", "rejects"}

confirmAndShopValidateOnRecipe(c) == IsSome(getKitchenState(c).currentRecipe)

\* confirmAndShopAction.validate: !!kitchenState.productsLinkUrl
confirmAndShopValidate(c) == Truthy(getKitchenState(c).productsLinkUrl)

\* confirmAndShopAction.handler: no try/catch around its body
ConfirmAndShop ==
    /\ \E callback \in Callbacks :
           LET kitchenState == getKitchenState(cache)
               url == kitchenState.productsLinkUrl
           IN IF ~Truthy(url)
              THEN /\ Finish("confirmAndShop", "none", "none", None, None,
                             [writes |-> <<>>, texts |-> <<>>,
                              result |-> [success |-> FALSE,
                                          text |-> Some("No active recipe or shopping link found."),
                                          error |-> None, data |-> None]])
                   /\ thrown' = None
              ELSE IF callback = "rejects"
              THEN /\ \E fault \in Faults : thrown' = Some(fault)
                   /\ trace' = [NoTrace EXCEPT !.action = "confirmAndShop",
                                               !.kitchenState = kitchenState]
                   /\ cache' = cache
              ELSE /\ Finish("confirmAndShop", "none", "none", None, None,
                             [writes |-> <<>>,
                              texts |-> IF callback = "resolves"
                                        THEN <<LinkText(Get(url))>> ELSE <<>>,
                              result |-> Ok("Instacart link: " \o Get(url),
                                            Some([instacartUrl |-> url]))])
                   /\ thrown' = None
    /\ UNCHANGED <<now, userText, navResult, store, procs, last, request, posts, outcome,
                   config, service, apiCall, chat>>

NextFaults == CookAlongTry \/ CreateRecipeTry \/ PlanMealsTry \/ ConfirmAndShop

SpecFaults == Init /\ [][NextFaults]_vars

----------------------------------------------------------------------------
(* Handlers of one conversation at work at the same time: each reads the state *)
(* once at its start, and each of its updateKitchenState calls reads the       *)
(* current state and then sets the merged one; other handlers run in between   *)

\* a handler not invoked, having been invoked `calls` times
Idle ==
    [pc |-> "idle", action |-> "none", mode |-> "none", navCommand |-> "none",
     seen |-> EmptyKitchenState, out |-> [writes |-> <<>>, texts |-> <<>>, result |-> Fail("")],
     todo |-> <<>>, current |-> EmptyKitchenState, calls |-> 0]

\* a recipe by another title, so that the link of one recipe is told from the link of
\* another
Stew == [Complete(1) EXCEPT !.title = Some("Stew")]
RaceGenOutputs == {Stew, Complete(2)}
RacePlan ==
    [parses |-> TRUE, title |-> Some("Week"), days |-> Some(<<"Monday">>),
     consolidatedList |-> Some(<<LineItem(Ingredients[1])>>)]
RaceTexts == {<<"next">>, <<"done">>, <<"go", "back">>, <<"ready">>}

\* the link the order service makes for what it was sent, or none when the order failed
LinkFor(title) == "https://instacart.example/" \o title
RaceLinks(title) == {None, Some(LinkFor(Get(title)))}

\* a session under way on the two-step recipe, left by an earlier cook-along message
RaceStates == {None, ApplyWrites(None, BeginSession(EmptyKitchenState, Complete(2), 0).writes)}

InitRace ==
    /\ cache \in RaceStates
    /\ now = 0
    /\ trace = NoTrace
    /\ userText = <<>>
    /\ navResult = "unset"
    /\ store = [k \in CacheKeys |-> Undefined]
    /\ procs = [p \in Procs |-> Idle]
    /\ last = NoStep
    /\ OrderInit
    /\ AgentInit

Invocations == procs["h1"].calls + procs["h2"].calls

\* the handler is invoked and runs up to its first updateKitchenState call: it has read
\* the state, and what it will write, send and return is settled by what it read
Invoked(p, action, mode, navCommand, kitchenState, out) ==
    procs' = [procs EXCEPT ![p] =
                 [pc |-> "run", action |-> action, mode |-> mode, navCommand |-> navCommand,
                  seen |-> kitchenState, out |-> out, todo |-> out.writes,
                  current |-> EmptyKitchenState, calls |-> procs[p].calls + 1]]

\* cookAlongAction.handler, from its start to its first write
StartCookAlong(p) ==
    /\ procs[p].pc = "idle" /\ Invocations < MaxCalls
    /\ \E text \in RaceTexts :
        LET kitchenState == getKitchenState(cache)
            navCommand == detectNavCommand(text)
        IN IF IsSome(kitchenState.cookingSession)
           THEN /\ Invoked(p, "cookAlong", "navigate", navCommand, kitchenState,
                           Navigate(Get(kitchenState.cookingSession), navCommand, <<>>))
                /\ now' = now
           ELSE /\ now < MaxTime
                /\ \E genOutput \in RaceGenOutputs :
                       Invoked(p, "cookAlong", "begin", navCommand, kitchenState,
                               BeginSession(kitchenState, genOutput, now))
                /\ now' = now + 1
    /\ UNCHANGED <<cache, trace, userText, navResult, store, last, request, posts, outcome,
                   agentVars>>

\* createRecipeAction.handler, from its start to its write: generation and order
StartCreateRecipe(p) ==
    /\ procs[p].pc = "idle" /\ Invocations < MaxCalls
    /\ \E genOutput \in RaceGenOutputs : \E instacartUrl \in RaceLinks(genOutput.title) :
           Invoked(p, "createRecipe", "none", "none", EmptyKitchenState,
                   CreateRecipeOutcome(genOutput, instacartUrl))
    /\ UNCHANGED <<cache, now, trace, userText, navResult, store, last, request, posts,
                   outcome, agentVars>>

\* planMealsAction.handler, from its start to its write: generation and order
StartPlanMeals(p) ==
    /\ procs[p].pc = "idle" /\ Invocations < MaxCalls
    /\ \E instacartUrl \in RaceLinks(RacePlan.title) :
           Invoked(p, "planMeals", "none", "none", getKitchenState(cache),
                   PlanMealsOutcome(RacePlan, instacartUrl))
    /\ UNCHANGED <<cache, now, trace, userText, navResult, store, last, request, posts,
                   outcome, agentVars>>

\* updateKitchenState: const current = await getKitchenState(runtime, roomId)
MergeRead(p) ==
    /\ procs[p].pc = "run" /\ procs[p].todo # <<>>
    /\ procs' = [procs EXCEPT ![p].pc = "merge", ![p].current = getKitchenState(cache)]
    /\ UNCHANGED <<cache, now, trace, userText, navResult, store, last, request, posts,
                   outcome, agentVars>>

\* updateKitchenState: await cacheManager.set(cacheKey, { ...current, ...updates })
MergeSet(p) ==
    /\ procs[p].pc = "merge"
    /\ cache' = Some(Merge(procs[p].current, Head(procs[p].todo)))
    /\ procs' = [procs EXCEPT ![p].pc = "run", ![p].todo = Tail(@)]
    /\ UNCHANGED <<now, trace, userText, navResult, store, last, request, posts, outcome,
                   agentVars>>

\* the handler sends its last text and returns
Return(p) ==
    /\ procs[p].pc = "run" /\ procs[p].todo = <<>>
    /\ trace' = [action |-> procs[p].action, mode |-> procs[p].mode,
                 navCommand |-> procs[p].navCommand, llm |-> None, gen |-> None,
                 kitchenState |-> procs[p].seen, again |-> FALSE,
                 writes |-> procs[p].out.writes, texts |-> procs[p].out.texts,
                 result |-> procs[p].out.result, broke |-> None]
    /\ procs' = [procs EXCEPT ![p] = [Idle EXCEPT !.calls = procs[p].calls]]
    /\ UNCHANGED <<cache, now, userText, navResult, store, last, request, posts, outcome,
                   agentVars>>

NextRace ==
    \/ \E p \in Procs : StartCookAlong(p)
    \/ \E p \in Procs : StartCreateRecipe(p)
    \/ \E p \in Procs : StartPlanMeals(p)
    \/ \E p \in Procs : MergeRead(p)
    \/ \E p \in Procs : MergeSet(p)
    \/ \E p \in Procs : Return(p)

SpecRace == InitRace /\ [][NextRace]_vars

----------------------------------------------------------------------------
(* The chat hook of the frontend: sendChatMessage with streaming.  A request   *)
(* is a call of sendChatMessage suspended at `await sendMessageStream(...)`    *)

\* how many messages the user sends
MaxSends == 3

UserMessage(id) == [id |-> id, role |-> "user", content |-> "text", isStreaming |-> FALSE]

\* the placeholder: { id: streamingId, role: "agent", content: "", isStreaming: true }
StreamingMessage(id) == [id |-> id, role |-> "agent", content |-> "", isStreaming |-> TRUE]

ConnectionTrouble ==
    "Sorry, I'm having trouble connecting right now. Please try again in a moment!"

\* abortControllerRef.current?.abort(): the signal of the request of the current
\* controller, if there is one, is aborted from now on
AbortCurrent(requests, controller) ==
    [r \in 1..Len(requests) |->
        IF r = controller THEN [requests[r] EXCEPT !.aborted = TRUE] ELSE requests[r]]

\* setMessages(prev => prev.map(msg => msg.id === streamingId ? change(msg) : msg))
ReplaceStreaming(messages, streamingId, content, isStreaming) ==
    [i \in 1..Len(messages) |->
        IF messages[i].id = streamingId
        THEN [messages[i] EXCEPT !.content = content, !.isStreaming = isStreaming]
        ELSE messages[i]]

\* catch (err): if (abortController.signal.aborted) return; otherwise the placeholder
\* becomes the error message
AfterCatch(messages, streamingId, aborted) ==
    IF aborted THEN messages
    ELSE ReplaceStreaming(messages, streamingId, ConnectionTrouble, FALSE)

ChatUnchanged ==
    UNCHANGED <<cache, now, trace, userText, navResult, store, procs, last, request, posts,
                outcome, config, service, apiCall, thrown>>

\* sendChatMessage up to `await sendMessageStream(...)`
SendChatMessage ==
    /\ Len(chat.requests) < MaxSends
    /\ chat' = [chat EXCEPT
                   !.error = None,
                   !.requests = Append(AbortCurrent(chat.requests, chat.controller),
                                       [pc |-> "pending", aborted |-> FALSE,
                                        streamingId |-> chat.nextId + 1,
                                        streamedText |-> ""]),
                   !.controller = Len(chat.requests) + 1,
                   !.messages = chat.messages \o <<UserMessage(chat.nextId),
                                                   StreamingMessage(chat.nextId + 1)>>,
                   !.nextId = @ + 2,
                   !.isLoading = TRUE]
    /\ ChatUnchanged

\* onChunk of a request whose signal is not aborted: the placeholder shows the text so far
Chunk(r) ==
    /\ chat.requests[r].pc = "pending" /\ ~chat.requests[r].aborted
    /\ chat.requests[r].streamedText = ""
    /\ chat' = [chat EXCEPT
                   !.requests[r].streamedText = "Stir",
                   !.messages = ReplaceStreaming(@, chat.requests[r].streamingId, "Stir", TRUE)]
    /\ ChatUnchanged

\* sendMessageStream resolves: the placeholder becomes the final message; finally
\* setIsLoading(false)
Resolves(r) ==
    /\ chat.requests[r].pc = "pending" /\ ~chat.requests[r].aborted
    /\ \E text \in {"", "Stir it."} :
           chat' = [chat EXCEPT
                       !.requests[r].pc = "resolved",
                       !.messages =
                           ReplaceStreaming(@, chat.requests[r].streamingId,
                                            IF text # "" THEN text
                                            ELSE chat.requests[r].streamedText, FALSE),
                       !.isLoading = FALSE]
    /\ ChatUnchanged

\* sendMessageStream rejects, because the request failed or because its signal was
\* aborted: the catch block, then finally setIsLoading(false)
Rejects(r) ==
    /\ chat.requests[r].pc = "pending"
    /\ chat' = [chat EXCEPT
                   !.requests[r].pc = IF chat.requests[r].aborted THEN "aborted" ELSE "failed",
                   !.error = IF chat.requests[r].aborted THEN @ ELSE Some("Failed to send message"),
                   !.messages = AfterCatch(@, chat.requests[r].streamingId, chat.requests[r].aborted),
                   !.isLoading = FALSE]
    /\ ChatUnchanged

\* clearMessages: abort, setMessages([]), setError(null)
ClearMessages ==
    /\ chat.messages # <<>>
    /\ chat' = [chat EXCEPT !.requests = AbortCurrent(chat.requests, chat.controller),
                            !.messages = <<>>, !.error = None]
    /\ ChatUnchanged

NextChat ==
    \/ SendChatMessage
    \/ \E r \in 1..Len(chat.requests) : Chunk(r)
    \/ \E r \in 1..Len(chat.requests) : Resolves(r)
    \/ \E r \in 1..Len(chat.requests) : Rejects(r)
    \/ ClearMessages

SpecChat == Init /\ [][NextChat]_vars

----------------------------------------------------------------------------
(* One apiRequest, step by step: the timer and the awaits on fetch, on         *)
(* response.text() and on response.json()                                      *)

Endpoints == {"/products/recipe", "/products/products_link"}

\* apiRequest up to `await fetch(url, ...)`: the timer is set and the request goes out
BeginRequest ==
    /\ apiCall.pc = "idle"
    /\ \E endpoint \in Endpoints :
           apiCall' = [apiCall EXCEPT !.pc = "fetch", !.endpoint = endpoint, !.timer = "set",
                                      !.fetches = @ + 1]
    /\ UNCHANGED <<cache, now, trace, userText, navResult, store, procs, last, request, posts,
                   outcome, config, service, thrown, chat>>

\* apiRequest is suspended at one of its awaits
Suspended == apiCall.pc \in {"fetch", "text", "json"}

\* apiRequest ends: finally { clearTimeout(timeoutId) }, and the promise settles
Settled(result) == [apiCall EXCEPT !.pc = "done", !.timer = "cleared", !.result = Some(result)]

\* a second goes by
Tick ==
    /\ Suspended
    /\ apiCall.elapsed < RequestTimeoutSeconds
    /\ apiCall' = [apiCall EXCEPT !.elapsed = @ + 1]
    /\ UNCHANGED <<cache, now, trace, userText, navResult, store, procs, last, request, posts,
                   outcome, config, service, thrown, chat>>

\* the timer fires: controller.abort().  The pending fetch or json() rejects with the
\* AbortError; a pending text() rejects too, and its .catch puts the placeholder in
Timeout ==
    /\ Suspended
    /\ apiCall.timer = "set"
    /\ apiCall.elapsed = RequestTimeoutSeconds
    /\ apiCall' = [(IF apiCall.pc = "text"
                    THEN Settled(Catch(StatusError(Get(apiCall.response), None)))
                    ELSE Settled(Catch(AbortError))) EXCEPT !.aborted = TRUE]
    /\ UNCHANGED <<cache, now, trace, userText, navResult, store, procs, last, request, posts,
                   outcome, config, service, thrown, chat>>

\* fetch resolves with a response: on to response.text() or to response.json()
Respond ==
    /\ apiCall.pc = "fetch"
    /\ \E response \in Responses :
           apiCall' = [apiCall EXCEPT !.response = Some(response),
                                      !.pc = IF IsOk(response.status) THEN "json" ELSE "text"]
    /\ UNCHANGED <<cache, now, trace, userText, navResult, store, procs, last, request, posts,
                   outcome, config, service, thrown, chat>>

\* fetch rejects: the transport failed
FetchFails ==
    /\ apiCall.pc = "fetch"
    /\ apiCall' = Settled(Catch(FetchError))
    /\ UNCHANGED <<cache, now, trace, userText, navResult, store, procs, last, request, posts,
                   outcome, config, service, thrown, chat>>

\* response.text() settles: the error of the status is thrown
ReadText ==
    /\ apiCall.pc = "text"
    /\ apiCall' = Settled(Catch(StatusError(Get(apiCall.response),
                                            Get(apiCall.response).errorBody)))
    /\ UNCHANGED <<cache, now, trace, userText, navResult, store, procs, last, request, posts,
                   outcome, config, service, thrown, chat>>

\* response.json() settles
ReadJson ==
    /\ apiCall.pc = "json"
    /\ apiCall' = Settled(AfterJson(Get(apiCall.response).data))
    /\ UNCHANGED <<cache, now, trace, userText, navResult, store, procs, last, request, posts,
                   outcome, config, service, thrown, chat>>

NextHttp ==
    \/ BeginRequest
    \/ Tick
    \/ Timeout
    \/ Respond
    \/ FetchFails
    \/ ReadText
    \/ ReadJson

SpecHttp == Init /\ [][NextHttp]_vars

\* time goes by, and a timer that is due and not cleared fires
SpecHttpLive == SpecHttp /\ WF_vars(Tick) /\ WF_vars(Timeout)

----------------------------------------------------------------------------
(* The start of the agent under every configuration of the key, and the orders *)
(* asked for afterwards                                                        *)

\* orders of one item under a good title, with good instructions and days
ServiceRequests ==
    {r \in Requests :
        /\ r.title = Some("Soup")
        /\ IsSome(r.items) /\ Len(Get(r.items)) = 1
        /\ r.kind = "recipe" => r.instructions = Some(Instructions(2))
        /\ (r.kind = "list" /\ r.via = "action") => r.days = Some(<<"Monday">>)}

InitService ==
    /\ request \in ServiceRequests
    /\ config \in Configs
    /\ service = NotStarted
    /\ cache = None
    /\ now = 0
    /\ trace = NoTrace
    /\ userText = <<>>
    /\ navResult = "unset"
    /\ StoreInit
    /\ posts = <<>>
    /\ outcome = None
    /\ apiCall = NoApiCall
    /\ thrown = None
    /\ chat = NoChat

\* the runtime starts the service: InstacartService.start(runtime)
StartService ==
    /\ service.state = "unstarted"
    /\ service' = start(config)
    /\ UNCHANGED <<cache, now, trace, userText, navResult, store, procs, last, request, posts,
                   outcome, config, apiCall, thrown, chat>>

NextService ==
    \/ StartService
    \/ CallCreateRecipe
    \/ CallCreateShoppingList
    \/ OrderRecipe
    \/ OrderShoppingList

SpecService == InitService /\ [][NextService]_vars

----------------------------------------------------------------------------
(* The classifier alone, on every utterance of the vocabulary *)

InitNav ==
    /\ cache = None
    /\ now = 0
    /\ trace = NoTrace
    /\ userText \in Utterances
    /\ navResult = "unset"
    /\ StoreInit
    /\ OrderInit
    /\ AgentInit

Classify ==
    /\ navResult = "unset"
    /\ navResult' = detectNavCommand(userText)
    /\ UNCHANGED <<cache, now, trace, userText, store, procs, last, request, posts, outcome, agentVars>>

NextNav == Classify

SpecNav == InitNav /\ [][NextNav]_vars

----------------------------------------------------------------------------
(* Properties *)

TypeOK ==
    /\ now \in 0..MaxTime
    /\ Len(cache) <= 1
    /\ navResult \in {"unset", "done", "next", "previous", "repeat", "start", "status",
                      "ingredients", "none"}

TotalSteps == Len(Session.recipe.instructions)

\* the session the last handler read, and its number of steps
Before == Get(trace.kitchenState.cookingSession)
BeforeSteps == Len(Before.recipe.instructions)

\* the last invocation was the cook-along handler navigating an active session on cmd
Navigated(cmd) ==
    /\ trace.action = "cookAlong"
    /\ trace.mode = "navigate"
    /\ trace.navCommand = cmd

\* the stored state differs from the one the handler read in the session at most
OnlySessionChanged ==
    \A f \in KitchenFields \ {"cookingSession"} :
        getKitchenState(cache)[f] = trace.kitchenState[f]

\* the stored state is the one the handler read
StateUnchanged == getKitchenState(cache) = trace.kitchenState

\* C1: every stored cooking session has 0 <= currentStep < totalSteps, after every
\* transition of the handlers, from a fresh conversation on.
C1_StepInRange ==
    HasSession => (0 <= Session.currentStep /\ Session.currentStep < TotalSteps)

\* C1 witness: next took a session of at least three steps to its last step.
C1_Witness ==
    /\ Navigated("next")
    /\ HasSession
    /\ TotalSteps >= 3
    /\ Session.currentStep = TotalSteps - 1

\* C2: next on an active session at step k with k+1 < totalSteps stores currentStep = k+1,
\* every other field of the session and of the state as it was, and emits
\* "Step (k+2) of totalSteps: <instruction k+1>".
C2_NextAdvances ==
    (Navigated("next") /\ Before.currentStep + 1 < BeforeSteps) =>
        /\ getKitchenState(cache).cookingSession =
               Some([Before EXCEPT !.currentStep = Before.currentStep + 1])
        /\ OnlySessionChanged
        /\ trace.texts =
               <<"Step " \o ToString(Before.currentStep + 2) \o " of " \o ToString(BeforeSteps)
                   \o ": " \o Before.recipe.instructions[Before.currentStep + 2]>>
        /\ trace.result.text = Some(trace.texts[1])

\* C2 witness: scenario A, a session at step 2 of 5 took next: step 3, "Step 4 of 5".
C2_Witness ==
    /\ Navigated("next")
    /\ Before.currentStep = 2
    /\ HasSession
    /\ TotalSteps = 5
    /\ Session.currentStep = 3
    /\ trace.texts = <<"Step 4 of 5: Do 4">>

\* C3: next on an active session at its last step clears cookingSession, emits the
\* completion message and emits no step instruction.
C3_NextAtLastStepEnds ==
    (Navigated("next") /\ Before.currentStep + 1 = BeforeSteps) =>
        /\ ~HasSession
        /\ OnlySessionChanged
        /\ trace.texts = <<"That was the last step! Your " \o Before.recipe.title
                              \o " is complete. Enjoy your meal!">>
        /\ trace.result.success
        /\ trace.result.data = Some([finished |-> TRUE])

\* C3 witness: scenario B, a session at step 4 of 5 took next and is gone.
C3_Witness ==
    /\ Navigated("next")
    /\ Before.currentStep = 4
    /\ BeforeSteps = 5
    /\ ~HasSession
    /\ trace.texts = <<"That was the last step! Your Soup is complete. Enjoy your meal!">>

\* C4: done on an active session ends it, whatever the step.
C4_DoneEnds ==
    Navigated("done") =>
        /\ ~HasSession
        /\ OnlySessionChanged
        /\ trace.result.success

\* C4 witness: done ended a session that was on a middle step.
C4_Witness ==
    /\ Navigated("done")
    /\ Before.currentStep = 1
    /\ BeforeSteps >= 3
    /\ ~HasSession
    /\ trace.texts = <<"Cooking session ended for Soup. Great job!">>

\* C5: previous on an active session at step k stores currentStep = max(0, k-1) and
\* keeps the session active; from step 0 it stays at step 0.
C5_PreviousClamps ==
    Navigated("previous") =>
        /\ HasSession
        /\ getKitchenState(cache).cookingSession =
               Some([Before EXCEPT !.currentStep =
                        IF Before.currentStep = 0 THEN 0 ELSE Before.currentStep - 1])
        /\ Session.currentStep >= 0
        /\ OnlySessionChanged

\* C5 witness: previous at step 0 left the session active at step 0.
C5_Witness ==
    /\ Navigated("previous")
    /\ Before.currentStep = 0
    /\ HasSession
    /\ Session.currentStep = 0
    /\ trace.texts = <<"Step 1 of " \o ToString(TotalSteps) \o ": Do 1">>

\* C6: repeat is idempotent: it leaves the stored state as it was and performs no
\* write, and a repeat straight after a repeat emits the same text and returns the same
\* result as the first.
C6_RepeatIdempotent ==
    [][(trace'.action = "cookAlong" /\ trace'.mode = "navigate"
            /\ trace'.navCommand = "repeat") =>
        /\ cache' = cache
        /\ trace'.writes = <<>>
        /\ trace'.texts = <<"Step " \o ToString(Session.currentStep + 1) \o " of "
                               \o ToString(TotalSteps) \o ": "
                               \o Session.recipe.instructions[Session.currentStep + 1]>>
        /\ (Navigated("repeat") =>
               /\ trace'.texts = trace.texts
               /\ trace'.result = trace.result)]_vars

\* C6 witness: the second of two repeats in a row, on step 2 of a session.
C6_Witness ==
    /\ Navigated("repeat")
    /\ trace.again
    /\ HasSession
    /\ Session.currentStep = 1
    /\ Before.currentStep = 1
    /\ trace.texts = <<"Step 2 of " \o ToString(TotalSteps) \o ": Do 2">>

\* C7: start on an active session stores currentStep = 0 and isPaused = FALSE, leaves the
\* session's recipe (and startedAt) and the conversation's currentRecipe as they were,
\* and emits step 1 again.
C7_StartRestarts ==
    Navigated("start") =>
        /\ HasSession
        /\ Session.currentStep = 0
        /\ Session.isPaused = FALSE
        /\ Session.recipe = Before.recipe
        /\ Session.startedAt = Before.startedAt
        /\ OnlySessionChanged
        /\ trace.texts = <<"Restarting " \o Before.recipe.title
                              \o " from the beginning.\n\nStep 1 of " \o ToString(BeforeSteps)
                              \o ": " \o Before.recipe.instructions[1]>>

\* C7 witness: start took a session from step 2 back to step 0; the session's recipe is
\* not the conversation's current recipe, and both are stored.
C7_Witness ==
    /\ Navigated("start")
    /\ Before.currentStep = 2
    /\ HasSession
    /\ Session.currentStep = 0
    /\ IsSome(getKitchenState(cache).currentRecipe)
    /\ Get(getKitchenState(cache).currentRecipe) # Session.recipe

\* C8: status and ingredients on an active session perform no write and leave every
\* field of the stored state as it was.
C8_StatusIngredientsReadOnly ==
    (Navigated("status") \/ Navigated("ingredients")) =>
        /\ trace.writes = <<>>
        /\ StateUnchanged
        /\ trace.result.success

\* C8 witness: status answered on step 2 of 4, half way, and the session is still there.
C8_Witness ==
    /\ Navigated("status")
    /\ HasSession
    /\ Session.currentStep = 1
    /\ TotalSteps = 4
    /\ trace.texts = <<"You're on step 2 of 4 for Soup (50% complete).">>

----------------------------------------------------------------------------
(* Classification *)

Priority == <<"done", "next", "previous", "repeat", "start", "status", "ingredients">>

\* the lexical category c matches the normalized utterance t
Matches(c, t) ==
    CASE c = "done" -> MatchesDone(t)
      [] c = "next" -> MatchesNext(t)
      [] c = "previous" -> MatchesPrevious(t)
      [] c = "repeat" -> MatchesRepeat(t)
      [] c = "start" -> MatchesStart(t)
      [] c = "status" -> MatchesStatus(t)
      [] c = "ingredients" -> MatchesIngredients(t)

\* C9: the classification is the highest-priority category the utterance matches, in the
\* order done > next > previous > repeat > start > status > ingredients, and none when it
\* matches no category.
C9_FirstMatchWins ==
    navResult # "unset" =>
        LET t == Normalize(userText)
            matched == {i \in 1..Len(Priority) : Matches(Priority[i], t)}
        IN IF matched = {}
           THEN navResult = "none"
           ELSE \E i \in matched :
                    /\ navResult = Priority[i]
                    /\ \A j \in matched : i <= j

\* C9 witness: "Okay, DONE" matches next and done and is classified done.
C9_Witness ==
    /\ userText = <<"Okay", ",", "DONE">>
    /\ MatchesNext(Normalize(userText))
    /\ navResult = "done"

----------------------------------------------------------------------------
(* Inference fallback *)

\* the last invocation did what the lexical case `out` does from the state it read
SameAs(out) ==
    /\ getKitchenState(cache) = getKitchenState(ApplyWrites(Some(trace.kitchenState), out.writes))
    /\ trace.writes = out.writes
    /\ trace.texts = out.texts
    /\ trace.result = out.result

\* C10: on an active session with lexical class none, the response NEXT, PREVIOUS, REPEAT
\* or DONE (in any letter case, blanks around it ignored) has the state, text and result
\* of the lexical next, previous, repeat or done from the same state; any other response
\* is emitted as it is (blanks around it dropped) and the stored state stays as it was.
C10_InferenceMapsToLexical ==
    Navigated("none") =>
        LET word == Text(ToUpperCase(Trim(Get(trace.llm))))
        IN CASE word = "NEXT" -> SameAs(CaseNext(Before))
             [] word = "PREVIOUS" -> SameAs(CasePrevious(Before))
             [] word = "REPEAT" -> SameAs(CaseRepeat(Before))
             [] word = "DONE" -> SameAs(CaseDone(Before))
             [] OTHER -> /\ StateUnchanged
                         /\ trace.writes = <<>>
                         /\ trace.texts = <<Text(Trim(Get(trace.llm)))>>
                         /\ trace.result.text = Some(Text(Trim(Get(trace.llm))))

\* C10 witness: the response " next\n" to an unclassified utterance advanced the session
\* from step 1 to step 2.
C10_Witness ==
    /\ Navigated("none")
    /\ trace.llm = Some(<<" ", "n", "e", "x", "t", "\n">>)
    /\ Before.currentStep = 0
    /\ HasSession
    /\ Session.currentStep = 1
    /\ trace.texts = <<"Step 2 of " \o ToString(TotalSteps) \o ": Do 2">>

----------------------------------------------------------------------------
(* Starting a session *)

\* the last invocation was the cook-along handler on a conversation with no session
Began ==
    /\ trace.action = "cookAlong"
    /\ trace.mode = "begin"

\* C11: a cook-along request that arrives with no session and succeeds leaves a session at
\* step 0, not paused, whose recipe is the stored currentRecipe: the currentRecipe that was
\* there is reused and left as it was, otherwise the generated recipe is written as
\* currentRecipe first and the session is written after it.
C11_BeginCreatesSession ==
    (Began /\ trace.result.success) =>
        /\ HasSession
        /\ Session.currentStep = 0
        /\ Session.isPaused = FALSE
        /\ getKitchenState(cache).currentRecipe = Some(Session.recipe)
        /\ IF IsSome(trace.kitchenState.currentRecipe)
           THEN /\ getKitchenState(cache).currentRecipe = trace.kitchenState.currentRecipe
                /\ Len(trace.writes) = 1
                /\ DOMAIN trace.writes[1] = {"cookingSession"}
           ELSE /\ trace.writes[1] = [currentRecipe |-> QuickRecipe(Get(trace.gen))]
                /\ Len(trace.writes) = 2
                /\ DOMAIN trace.writes[2] = {"cookingSession"}
                /\ Session.recipe = Get(QuickRecipe(Get(trace.gen)))

\* C11 witness: on a fresh conversation a three-step recipe was generated, stored and
\* taken into a session at step 0.
C11_Witness ==
    /\ Began
    /\ trace.result.success
    /\ ~IsSome(trace.kitchenState.currentRecipe)
    /\ trace.gen = Some(Complete(3))
    /\ HasSession
    /\ Session.currentStep = 0
    /\ Get(getKitchenState(cache).currentRecipe).instructions = Instructions(3)

\* the generation output is not a recipe: not JSON, or without a title, ingredients or
\* instructions
GenerationFailed == IsSome(trace.gen) /\ (~Get(trace.gen).parses \/ ~IsComplete(Get(trace.gen)))

\* C12: when generation fails in a cook-along request that arrives with no session, the
\* handler returns a failure with the user-facing text, writes nothing, and neither a
\* session nor a currentRecipe is stored.
C12_FailedGenerationWritesNothing ==
    (Began /\ GenerationFailed) =>
        /\ ~trace.result.success
        /\ trace.result.error = Some(GenerationFailedText)
        /\ trace.texts[Len(trace.texts)] = GenerationFailedText
        /\ trace.writes = <<>>
        /\ StateUnchanged
        /\ ~HasSession
        /\ ~IsSome(getKitchenState(cache).currentRecipe)

\* C12 witness: the output had a title and ingredients but no instructions.
C12_Witness ==
    /\ Began
    /\ trace.gen = Some([Complete(2) EXCEPT !.instructions = Some(<<>>)])
    /\ ~trace.result.success
    /\ cache = None

----------------------------------------------------------------------------
(* Sessions read back out of range *)

\* the texts that name a step outside the recipe
OutOfRangeTexts(recipe) ==
    {formatStepForVoice(recipe, k) : k \in OutOfRange(Len(recipe.instructions))}

\* C13: whatever currentStep the session read back has, for every command the step
\* written back and the step returned lie in [0, totalSteps-1] and no emitted text names
\* a step outside the recipe (an undefined instruction).
C13_TamperedStepClamped ==
    (trace.action = "cookAlong" /\ trace.mode = "navigate") =>
        /\ HasSession => Session.currentStep \in 0..(BeforeSteps - 1)
        /\ (IsSome(trace.result.data) /\ "currentStep" \in DOMAIN Get(trace.result.data)) =>
               Get(trace.result.data).currentStep \in 0..(BeforeSteps - 1)
        /\ \A i \in 1..Len(trace.texts) : trace.texts[i] \notin OutOfRangeTexts(Before.recipe)

----------------------------------------------------------------------------
(* The store *)

\* the state stored for the room of the last step, before that step
StoredBefore == getKitchenStateOf(Resolved(last.before[getCacheKey(last.roomId)])).value.fields

\* C14: a merge whose write comes after another handler's write to the same conversation,
\* made since the merge read, puts back what it read: every field that the other patch
\* set and this patch does not name holds the value read before, so of the two patches
\* only this one is reflected in the stored state, also when they name different fields.
C14_StaleWriteLosesUpdate ==
    last.op = "write" =>
        \A u \in last.missed : \A f \in DOMAIN u \ DOMAIN Get(last.updates) :
            StoredState(last.roomId)[f] = last.current[f]

\* C14 witness: both merges read the empty state; the first stored a recipe and its link,
\* the second then stored a new session: the recipe and the link are gone.
C14_Witness ==
    /\ last.op = "write"
    /\ ~last.readThrew
    /\ DOMAIN Get(last.updates) = {"cookingSession"}
    /\ \E u \in last.missed :
           /\ DOMAIN u = {"currentRecipe", "productsLinkUrl"}
           /\ StoredBefore.currentRecipe = u.currentRecipe
           /\ IsSome(u.currentRecipe)
    /\ IsSome(StoredState(last.roomId).cookingSession)
    /\ ~IsSome(StoredState(last.roomId).currentRecipe)
    /\ ~IsSome(StoredState(last.roomId).productsLinkUrl)

C16_GetNeverThrows ==
    last.op \in {"get", "read"} =>
        /\ ~last.result.threw
        /\ last.result.value =
               IF \/ last.read.threw
                  \/ last.read.value = Undefined
                  \/ last.read.value = Null
                  \/ last.read.value.typeof # "object"
               THEN Object(EmptyKitchenState)
               ELSE last.read.value

\* C16 witness: the cache read failed while a session was stored for the room, and the
\* caller was given the empty state.
C16_Witness ==
    /\ last.op = "get"
    /\ last.read.threw
    /\ IsSome(StoredState(last.roomId).cookingSession)
    /\ last.result = Resolved(Object(EmptyKitchenState))

\* C17: what is under a room's key is what was last set for that room, a read for a room
\* is given that value, and a step for one room leaves the value of every other room
\* as it was.
C17_RoomsIsolated ==
    /\ \A r \in RoomIds : store[getCacheKey(r)] = last.written[r]
    /\ (last.op \in {"get", "read"} /\ ~last.read.threw) =>
           last.read.value = last.written[last.roomId]
    /\ last.op # "none" =>
           \A r \in RoomIds \ {last.roomId} :
               store[getCacheKey(r)] = last.before[getCacheKey(r)]

\* C17 witness: a merge for one room wrote while the other room had a stored state of its
\* own, which is still there.
C17_Witness ==
    /\ last.op = "write"
    /\ \E r \in RoomIds \ {last.roomId} :
           /\ IsSome(StoredState(r).currentRecipe)
           /\ ~IsSome(StoredState(r).cookingSession)
           /\ store[getCacheKey(r)] = last.before[getCacheKey(r)]
    /\ IsSome(StoredState(last.roomId).cookingSession)
    /\ ~IsSome(StoredState(last.roomId).currentRecipe)

----------------------------------------------------------------------------
(* The order client *)

\* a string that is missing, empty or only white space
Blank(value) == ~IsSome(value) \/ Get(value) \in {"", " "}

\* what was handed to the order client is rejected by its pre-flight validation: a blank
\* title, no ingredient or item, an ingredient or item without a name, or (recipe) no
\* instruction that is left after trimming
PreflightFails ==
    LET given == Get(outcome).given
    IN \/ Blank(request.title)
       \/ ~IsSome(given) \/ Len(Get(given)) = 0
       \/ \E i \in 1..Len(Get(given)) : Blank(Get(given)[i].name)
       \/ /\ request.kind = "recipe"
          /\ \/ ~IsSome(request.instructions)
             \/ \A i \in 1..Len(Get(request.instructions)) :
                    Blank(Some(Get(request.instructions)[i]))

\* the errors of apiRequest: the only ones raised after the POST went out
HttpErrors == {apiRequest(http).error : http \in HttpOutcomes} \ {""}

\* C18: when the order client is called (createRecipe or createShoppingList, directly or
\* by a handler) with a blank title, no ingredients or items, an ingredient or item whose
\* name is missing or blank, or (createRecipe) no instruction that is non-empty after
\* trim, it throws an error of its own and no HTTP POST is issued: not even for the
\* valid items of the batch.
C18_PreflightFailureSendsNothing ==
    (IsSome(outcome) /\ Get(outcome).called /\ PreflightFails)
        => /\ posts = <<>>
           /\ Get(outcome).result.threw
           /\ Get(outcome).result.error \notin HttpErrors
           /\ Get(outcome).instacartUrl = None

\* createRecipe was called with eggs and an ingredient without a name, under a good title
\* and with good instructions: it threw on index 1 and sent nothing
C18_Witness ==
    /\ IsSome(outcome) /\ Get(outcome).called
    /\ request.kind = "recipe" /\ request.via = "client"
    /\ request.title = Some("Soup") /\ request.instructions = Some(Instructions(2))
    /\ IsSome(request.items) /\ Len(Get(request.items)) = 2
    /\ Get(request.items)[1].name = Some("eggs") /\ Get(request.items)[2].name = None
    /\ Get(outcome).result = Threw("Ingredient at index 1 is missing a valid \"name\".")
    /\ posts = <<>>

\* the measurements of an item of a request body, under whichever key it has
SentMeasurements(item) ==
    IF "measurements" \in DOMAIN item THEN item.measurements ELSE item.line_item_measurements

\* the items of a request body
SentItems(body) == IF body.link_type = "recipe" THEN body.ingredients ELSE body.line_items

\* C19: every ingredient or line item in the body of a request that the create-recipe or
\* the plan-meals handler causes to be sent carries at least one measurement.
C19_SentItemsHaveMeasurement ==
    request.via = "action" =>
        \A p \in 1..Len(posts) : \A i \in 1..Len(SentItems(posts[p])) :
            LET measurements == SentMeasurements(SentItems(posts[p])[i])
            IN IsSome(measurements) /\ Len(Get(measurements)) >= 1

\* a measurement whose quantity is a positive number and whose unit is not blank
Survives(m) ==
    /\ m.quantity.typeof = "number" /\ ~m.quantity.isNaN /\ m.quantity.number > 0
    /\ ~Blank(Some(m.unit))

\* kept is sent as the measurements of an item that was given the measurements given:
\* the j-th of given that survives is the j-th of kept, with its quantity and its unit
\* (white space around the unit removed), and kept has nothing else
KeptInOrder(given, kept) ==
    LET surviving == {j \in 1..Len(given) : Survives(given[j])}
    IN /\ Len(kept) = Cardinality(surviving)
       /\ \A j \in surviving :
              kept[Cardinality({k \in surviving : k <= j})] =
                  [quantity |-> given[j].quantity, unit |-> TrimString(given[j].unit)]

\* C20: of an ingredient or line item handed to the order client, the measurements sent
\* are exactly those whose quantity is a positive number and whose unit is non-blank, in
\* their original order, so every measurement sent has a quantity > 0; an item given no
\* measurements is sent without the key; no measurement dropped makes the call fail: a
\* request that passes the pre-flight validation is sent, an item left with no measurement
\* included, and only the HTTP exchange can still fail it.
C20_SanitisedMeasurements ==
    (IsSome(outcome) /\ Get(outcome).called /\ ~PreflightFails) =>
        /\ Len(posts) = 1
        /\ Get(outcome).result.threw => Get(outcome).result.error \in HttpErrors
        /\ LET given == Get(Get(outcome).given)
               sent == SentItems(posts[1])
           IN /\ Len(sent) = Len(given)
              /\ \A i \in 1..Len(given) :
                     LET before == SentMeasurements(given[i])
                         after == SentMeasurements(sent[i])
                     IN IF ~IsSome(before) \/ Len(Get(before)) = 0
                        THEN after = None
                        ELSE /\ IsSome(after)
                             /\ KeptInOrder(Get(before), Get(after))
                             /\ \A k \in 1..Len(Get(after)) :
                                    /\ Get(after)[k].quantity.typeof = "number"
                                    /\ ~Get(after)[k].quantity.isNaN
                                    /\ Get(after)[k].quantity.number > 0

\* the ingredient of scenario C: flour, -1 cup
Flour ==
    [name |-> Some("flour"), display_text |-> None,
     measurements |-> Some(<<[quantity |-> Number(-1), unit |-> "cup"]>>)]

\* C21: when the create-recipe handler is given flour with the one measurement -1 cup
\* and a request goes out, the measurements submitted for flour are the default alone:
\* quantity 1, unit "unit".
C21_FlourSubmittedAsOneUnit ==
    (request.via = "action" /\ request.kind = "recipe" /\ Len(posts) = 1) =>
        \A i \in 1..Len(Get(request.items)) :
            Get(request.items)[i] = Flour =>
                posts[1].ingredients[i].measurements =
                    Some(<<[quantity |-> Number(1), unit |-> "unit"]>>)

----------------------------------------------------------------------------
(* What the handlers leave in KitchenState *)

\* the recipes stored: currentRecipe and the recipe of the session
StoredRecipes ==
    LET kitchenState == getKitchenState(cache)
    IN (IF IsSome(kitchenState.currentRecipe) THEN {Get(kitchenState.currentRecipe)} ELSE {})
       \cup (IF IsSome(kitchenState.cookingSession)
             THEN {Get(kitchenState.cookingSession).recipe} ELSE {})

\* C23: after any sequence of create-recipe and cook-along invocations, every recipe stored
\* in KitchenState (currentRecipe, cookingSession.recipe) has at least one ingredient and
\* at least one instruction, so a session has at least one step.
C23_StoredRecipeNotEmpty ==
    \A recipe \in StoredRecipes :
        Len(recipe.ingredients) >= 1 /\ Len(recipe.instructions) >= 1

\* the create-recipe handler was given a recipe without instructions (or without
\* ingredients) and stored nothing; earlier invocations had stored a recipe and a session
C23_Witness ==
    /\ trace.action = "createRecipe"
    /\ HasSession
    /\ IsSome(trace.gen)
    /\ Get(trace.gen).parses
    /\ \/ Get(trace.gen).instructions = Some(<<>>)
       \/ Get(trace.gen).ingredients = Some(<<>>)
    /\ trace.writes = <<>>
    /\ StoredRecipes # {}

\* a handler asked the order client for a link and the call failed
OrderFailed ==
    /\ IsSome(outcome) /\ request.via = "action"
    /\ Get(outcome).called /\ Get(outcome).result.threw

\* C24: when the order call of the create-recipe or of the plan-meals handler fails
\* (timeout, transport failure, non-2xx status, no link in the answer, or an error of the
\* client's own validation), the recipe or plan is stored all the same, no order link is
\* stored afterwards (one stored before is removed), no link is sent through the callback,
\* and the handler returns success with no link.
C24_OrderFailureNotFatal ==
    OrderFailed =>
        LET kitchenState == getKitchenState(cache)
        IN /\ trace.result.success
           /\ Get(trace.result.data).instacartUrl = None
           /\ trace.texts = <<>>
           /\ kitchenState.productsLinkUrl = None
           /\ request.kind = "recipe" =>
                  /\ IsSome(kitchenState.currentRecipe)
                  /\ Get(kitchenState.currentRecipe).title = Get(request.title)
                  /\ Get(kitchenState.currentRecipe).instructions = Get(request.instructions)
                  /\ Len(Get(kitchenState.currentRecipe).ingredients) = Len(Get(request.items))
           /\ request.kind = "list" =>
                  /\ IsSome(kitchenState.currentMealPlan)
                  /\ Get(kitchenState.currentMealPlan).title = Get(request.title)
                  /\ Len(Get(kitchenState.currentMealPlan).consolidatedList)
                         = Len(Get(request.items))

\* scenario D: the order of the create-recipe handler timed out; a link was stored
\* before; now the new recipe is stored without one, and the result is a success
C24_Witness ==
    /\ OrderFailed /\ request.kind = "recipe"
    /\ Get(outcome).result.error = "Instacart API request timed out after 30 seconds."
    /\ Len(posts) = 1
    /\ IsSome(trace.kitchenState.productsLinkUrl)
    /\ getKitchenState(cache).productsLinkUrl = None
    /\ IsSome(getKitchenState(cache).currentRecipe)
    /\ Get(getKitchenState(cache).currentRecipe).title = " Soup "
    /\ trace.result.success

\* a required field of the generation output is absent: the title, the ingredients or
\* the instructions of a recipe; the title, the days or the consolidatedList of a plan;
\* a list that is empty counts as absent
RequiredFieldAbsent ==
    \/ ~IsSome(request.title) \/ Get(request.title) = ""
    \/ ~IsSome(request.items) \/ Len(Get(request.items)) = 0
    \/ /\ request.kind = "recipe"
       /\ (~IsSome(request.instructions) \/ Len(Get(request.instructions)) = 0)
    \/ /\ request.kind = "list"
       /\ (~IsSome(request.days) \/ Len(Get(request.days)) = 0)

\* C30: when a required field of the generation output is absent (recipe: title,
\* non-empty ingredients, non-empty instructions; plan: title, non-empty days, non-empty
\* consolidatedList), the create-recipe or plan-meals handler returns success: false with
\* the incomplete-result error and stores nothing.
C30_IncompleteOutputRejected ==
    (IsSome(outcome) /\ request.via = "action" /\ RequiredFieldAbsent) =>
        /\ ~trace.result.success
        /\ trace.result.error \in
               {Some("The generated recipe was incomplete. Please try again with more details."),
                Some("The generated meal plan was incomplete. Please try again with more details about how many days and dietary preferences.")}
        /\ trace.writes = <<>>
        /\ getKitchenState(cache) = trace.kitchenState
        /\ posts = <<>>

\* the ingredients and line items stored: those of the stored recipes, and the
\* consolidatedList of the stored meal plan
StoredItems ==
    LET kitchenState == getKitchenState(cache)
        Elements(items) == {items[i] : i \in 1..Len(items)}
    IN UNION {Elements(recipe.ingredients) : recipe \in StoredRecipes}
       \cup (IF IsSome(kitchenState.currentMealPlan)
             THEN Elements(Get(kitchenState.currentMealPlan).consolidatedList) ELSE {})

\* C22: every ingredient or line item stored in KitchenState (in currentRecipe, in the
\* recipe of the session, in the consolidatedList of the meal plan) has at least one
\* measurement, whichever handler stored it.
C22_StoredItemsHaveMeasurement ==
    \A item \in StoredItems :
        IsSome(SentMeasurements(item)) /\ Len(Get(SentMeasurements(item))) >= 1

----------------------------------------------------------------------------
(* The service *)

\* INSTACART_API_KEY is nowhere: absent or empty in the settings and in the environment
CredentialMissing ==
    /\ config.setting \in {None, Some("")}
    /\ config.env \in {None, Some("")}

\* C29: when the grocery API credential is missing, the start of the service fails, the
\* validate of the create-recipe and plan-meals actions is false, and no handler
\* invocation calls the order client or issues an HTTP POST.
C29_NoCredentialNoOrder ==
    (CredentialMissing /\ service.state # "unstarted") =>
        /\ service.state = "failed"
        /\ ~validate(config)
        /\ posts = <<>>
        /\ IsSome(outcome) => ~Get(outcome).called /\ Get(outcome).instacartUrl = None

\* without a key the start failed, the create-recipe handler was invoked all the same:
\* it stored the recipe, sent nothing and returned success without a link
C29_Witness ==
    /\ config = [setting |-> None, env |-> Some("")]
    /\ service.state = "failed"
    /\ IsSome(outcome) /\ trace.action = "createRecipe"
    /\ posts = <<>>
    /\ trace.result.success
    /\ IsSome(getKitchenState(cache).currentRecipe)

----------------------------------------------------------------------------
(* apiRequest *)

TimeoutMessage == "Instacart API request timed out after 30 seconds."

ApiResult == Get(apiCall.result)

\* C25: a network call of the order client always ends, with one outcome that never
\* changes; when the timer fires before a response is there, the call is aborted and
\* fails with the timeout error; that error is raised by nothing but the timeout, and a
\* call the timer aborted is never a success.
C25_CallEndsTimeoutDistinct ==
    /\ Suspended ~> (apiCall.pc = "done")
    /\ [](apiCall.pc = "done" <=> IsSome(apiCall.result))
    /\ [][IsSome(apiCall.result) => apiCall' = apiCall]_vars
    /\ []((apiCall.pc = "done" /\ apiCall.aborted /\ ~IsSome(apiCall.response))
             => ApiResult = Threw(TimeoutMessage))
    /\ []((apiCall.pc = "done" /\ ApiResult.error = TimeoutMessage) => apiCall.aborted)
    /\ []((apiCall.pc = "done" /\ apiCall.aborted) => ApiResult.threw)

\* thirty seconds went by without a response: the call is over, aborted, with the
\* timeout error, and its timer is cleared
C25_Witness ==
    /\ apiCall.pc = "done" /\ apiCall.aborted /\ ~IsSome(apiCall.response)
    /\ apiCall.elapsed = 30
    /\ apiCall.timer = "cleared"
    /\ ApiResult = Threw(TimeoutMessage)

\* the link of the answer, if it has one that is not blank
LinkOf(response) ==
    IF /\ IsSome(response.data) /\ IsSome(Get(response.data).products_link_url)
       /\ Get(Get(response.data).products_link_url) \notin {"", " "}
    THEN Get(response.data).products_link_url ELSE None

\* C26: apiRequest returns a response object only when the status is a success status
\* and the body holds a non-empty link, and then it returns that link; after a status
\* that is no success it throws an error with the status, its text and the body (a
\* placeholder when the body could not be read); after a success status whose body has
\* no link it throws as well.
C26_ResponseOnlyWithLink ==
    apiCall.pc = "done" =>
        /\ ~ApiResult.threw =>
               /\ IsSome(apiCall.response)
               /\ Get(apiCall.response).status \in 200..299
               /\ IsSome(LinkOf(Get(apiCall.response)))
               /\ ApiResult.value =
                      Some([products_link_url |-> Get(LinkOf(Get(apiCall.response)))])
        /\ (IsSome(apiCall.response) /\ Get(apiCall.response).status \notin 200..299) =>
               LET response == Get(apiCall.response)
               IN /\ ApiResult.threw
                  /\ ApiResult.error =
                         "Instacart API returned " \o ToString(response.status) \o " "
                         \o StatusText(response.status) \o ": "
                         \o (IF IsSome(response.errorBody) /\ ~apiCall.aborted
                             THEN Get(response.errorBody)
                             ELSE "<unable to read response body>")
        /\ (IsSome(apiCall.response) /\ ~IsSome(LinkOf(Get(apiCall.response)))) =>
               ApiResult.threw

\* a 201 whose body is JSON with a blank link: the call threw the error of the missing
\* link; it was not aborted
C26_Witness ==
    /\ apiCall.pc = "done" /\ ~apiCall.aborted
    /\ IsSome(apiCall.response)
    /\ Get(apiCall.response).status = 201
    /\ Get(apiCall.response).data = Some([products_link_url |-> Some(" ")])
    /\ ApiResult = Threw("Instacart API response did not contain a valid products_link_url.")

----------------------------------------------------------------------------
(* No retry *)

\* C27: the order client never retries.  A call of createRecipe or createShoppingList
\* posts at most one body, whatever its outcome; an invocation of the create-recipe or
\* of the plan-meals handler calls the client at most once, so it posts at most one body
\* too; and when the client was not called nothing is posted.
C27_NeverRetries ==
    IsSome(outcome) =>
        /\ Len(posts) <= 1
        /\ ~Get(outcome).called => posts = <<>>
        /\ (Get(outcome).called /\ ~Get(outcome).result.threw) => Len(posts) = 1

\* the plan-meals handler's order was answered 500: the list was posted once, and the
\* failure was not followed by a second post
C27_Witness ==
    /\ IsSome(outcome) /\ request.via = "action" /\ request.kind = "list"
    /\ Get(outcome).called
    /\ Get(outcome).result
           = Threw("Instacart API returned 500 Internal Server Error: overloaded")
    /\ Len(posts) = 1
    /\ posts[1].endpoint = "/products/products_link"

----------------------------------------------------------------------------
(* The action boundary *)

\* C28: nothing is thrown past a handler.  Whichever collaborator fails (inference call,
\* cache write, reply callback), an invocation of the cook-along, create-recipe,
\* plan-meals or confirm-and-shop handler ends in a result, a failure with its text or a
\* success, and no exception leaves it.
C28_NothingThrownPastHandler ==
    trace.action # "none" =>
        /\ thrown = None
        /\ ~trace.result.success => (IsSome(trace.result.error) \/ IsSome(trace.result.text))

----------------------------------------------------------------------------
(* The session and the recipes stored beside it *)

SessionAfter == getKitchenState(cache').cookingSession

\* C31: the recipe of a session is a snapshot.  Over any handler invocation that finds a
\* session and leaves one, the session's recipe (so its number of steps) and its
\* startedAt are the same before and after; and an invocation of create-recipe,
\* plan-meals or confirm-and-shop leaves the whole session, its currentStep included, as
\* it found it.
C31_SessionRecipeIsSnapshot ==
    [][/\ (HasSession /\ IsSome(SessionAfter)) =>
              /\ Get(SessionAfter).recipe = Session.recipe
              /\ Get(SessionAfter).startedAt = Session.startedAt
       /\ trace'.action \in {"createRecipe", "planMeals", "confirmAndShop"} =>
              SessionAfter = getKitchenState(cache).cookingSession]_vars

\* a session at its second step whose recipe has two steps, just after create-recipe
\* stored a recipe of one step as currentRecipe
C31_Witness ==
    /\ HasSession /\ Session.currentStep = 1
    /\ Len(Session.recipe.instructions) = 2
    /\ trace.action = "createRecipe" /\ trace.result.success
    /\ IsSome(getKitchenState(cache).currentRecipe)
    /\ Len(Get(getKitchenState(cache).currentRecipe).instructions) = 1

----------------------------------------------------------------------------
(* confirm-and-shop *)

StoredLink == getKitchenState(cache).productsLinkUrl

\* C32: confirm-and-shop is stateless.  Its validate is true exactly when a link is
\* stored for the conversation.  An invocation of its handler writes nothing to the
\* KitchenState and posts nothing to the order service; with no link stored it returns
\* a failure and sends no text; with a link stored, and unless the callback itself
\* failed, it returns success with exactly that link and what it sends through the
\* callback is the text of that link, once.
C32_ConfirmAndShopStateless ==
    [][/\ confirmAndShopValidate(cache) <=> IsSome(StoredLink)
       /\ trace'.action = "confirmAndShop" =>
              /\ cache' = cache
              /\ posts' = posts
              /\ ~IsSome(StoredLink) =>
                     /\ thrown' = None
                     /\ ~trace'.result.success
                     /\ trace'.texts = <<>>
              /\ (IsSome(StoredLink) /\ thrown' = None) =>
                     /\ trace'.result.success
                     /\ trace'.result.text = Some("Instacart link: " \o Get(StoredLink))
                     /\ Get(trace'.result.data).instacartUrl = StoredLink
                     /\ trace'.texts \in {<<>>, <<LinkText(Get(StoredLink))>>}]_vars

\* the link create-recipe stored was sent again and returned, and it is still stored
C32_Witness ==
    /\ trace.action = "confirmAndShop" /\ trace.result.success
    /\ IsSome(StoredLink)
    /\ trace.texts = <<LinkText(Get(StoredLink))>>
    /\ Get(trace.result.data).instacartUrl = StoredLink
    /\ IsSome(getKitchenState(cache).currentRecipe)
    /\ thrown = None

----------------------------------------------------------------------------
(* Persist, then reply *)

\* C33: in an invocation of create-recipe or plan-meals the link goes out through the
\* callback only after the write that holds it is done.  Whenever such an invocation
\* sent a text, that text is the link text of the link now stored, the recipe or plan it
\* generated is stored beside it, and confirm-and-shop's validate is true; this holds
\* too when a collaborator failed part-way.
C33_LinkSentAfterItIsStored ==
    (trace.action \in {"createRecipe", "planMeals"} /\ trace.texts # <<>>) =>
        /\ IsSome(StoredLink)
        /\ confirmAndShopValidate(cache)
        /\ Len(trace.writes) = 1
        /\ trace.writes[1].productsLinkUrl = StoredLink
        /\ trace.action = "createRecipe" =>
               /\ trace.texts = <<LinkText(Get(StoredLink))>>
               /\ trace.writes[1].currentRecipe = getKitchenState(cache).currentRecipe
               /\ IsSome(getKitchenState(cache).currentRecipe)
        /\ trace.action = "planMeals" =>
               /\ trace.texts = <<PlanLinkText(Get(StoredLink))>>
               /\ trace.writes[1].currentMealPlan = getKitchenState(cache).currentMealPlan
               /\ IsSome(getKitchenState(cache).currentMealPlan)

\* plan-meals stored its plan and the link, then sent the link
C33_Witness ==
    /\ trace.action = "planMeals" /\ trace.result.success
    /\ IsSome(StoredLink)
    /\ trace.texts = <<PlanLinkText(Get(StoredLink))>>
    /\ IsSome(getKitchenState(cache).currentMealPlan)
    /\ Get(trace.result.data).instacartUrl = StoredLink

----------------------------------------------------------------------------
(* The ingredients of the order *)

\* C34: the order built from a recipe has as many ingredients as the recipe, in the same
\* order.  When createRecipe posts a body, for a direct call or for the create-recipe
\* handler, the ingredients of the body are those of the recipe one for one, each under
\* its trimmed name; and when the client is called with an ingredient whose name is
\* blank the call throws and nothing is posted.
C34_NoIngredientDropped ==
    (IsSome(outcome) /\ request.kind = "recipe" /\ Get(outcome).called
        /\ IsSome(request.items)) =>
        LET recipe == Get(request.items)
        IN /\ posts # <<>> =>
                  /\ Len(posts[1].ingredients) = Len(recipe)
                  /\ \A i \in 1..Len(recipe) :
                         posts[1].ingredients[i].name = Some(TrimString(Get(recipe[i].name)))
           /\ (\E i \in 1..Len(recipe) : Blank(recipe[i].name)) =>
                  /\ posts = <<>>
                  /\ Get(outcome).result.threw

\* the handler's recipe of salt (no measurement) and flour (quantity -1): two
\* ingredients were posted, salt first
C34_Witness ==
    /\ IsSome(outcome) /\ request.kind = "recipe" /\ request.via = "action"
    /\ Get(outcome).called
    /\ Len(posts) = 1
    /\ Len(Get(request.items)) = 2
    /\ Get(request.items)[1].name = Some("salt")
    /\ Get(request.items)[2].name = Some("flour")
    /\ Len(posts[1].ingredients) = 2
    /\ posts[1].ingredients[1].name = Some("salt")

----------------------------------------------------------------------------
(* Handlers at the same time *)

\* C35: a stored link is the link of what is stored beside it.  Whenever productsLinkUrl
\* is set, it is the link the order service made for the currentRecipe or for the
\* currentMealPlan of the same state, however the create-recipe, plan-meals and
\* cook-along handlers of the conversation interleave.
C35_LinkBelongsToStoredRecipe ==
    IsSome(StoredLink) =>
        LET kitchenState == getKitchenState(cache)
        IN \/ /\ IsSome(kitchenState.currentRecipe)
              /\ Get(StoredLink) = LinkFor(Get(kitchenState.currentRecipe).title)
           \/ /\ IsSome(kitchenState.currentMealPlan)
              /\ Get(StoredLink) = LinkFor(Get(kitchenState.currentMealPlan).title)

\* no cook-along handler that starts a session is at work
NoneBeginning == \A p \in Procs : procs[p].mode # "begin"

\* C36: an ended session stays ended.  When the handler that returned last reported the
\* session ended (done, or next at the last step) and no handler that starts a session
\* is at work, no cookingSession is stored, whatever other navigation handlers that read
\* the session earlier write afterwards.
C36_EndedSessionStaysEnded ==
    (/\ trace.action = "cookAlong" /\ trace.mode = "navigate"
     /\ trace.result.success /\ trace.result.data = FinishedData
     /\ NoneBeginning) =>
        ~HasSession

----------------------------------------------------------------------------
(* A cook-along message when no session is under way *)

\* C37: without a session the navigation command of a cook-along message is ignored.
\* Whatever the message is classified as, a cook-along invocation that finds no session
\* and a stored currentRecipe leaves a session at step 0 on that recipe and returns
\* success; so when next at the last step has just ended a session, a further next
\* starts one at step 0, on the recipe of the ended session when that is still the
\* currentRecipe.
C37_NoSessionIgnoresCommand ==
    [][(/\ trace'.action = "cookAlong"
        /\ ~HasSession
        /\ IsSome(getKitchenState(cache).currentRecipe)) =>
           /\ trace'.mode = "begin"
           /\ trace'.result.success
           /\ IsSome(SessionAfter)
           /\ Get(SessionAfter).currentStep = 0
           /\ Get(SessionAfter).recipe = Get(getKitchenState(cache).currentRecipe)
           /\ (/\ trace.action = "cookAlong" /\ trace.navCommand = "next"
               /\ trace.result.data = FinishedData
               /\ trace'.navCommand = "next"
               /\ Get(trace.kitchenState.cookingSession).recipe
                      = Get(getKitchenState(cache).currentRecipe)) =>
                  Get(SessionAfter).recipe = Get(trace.kitchenState.cookingSession).recipe]_vars

\* C37 as it was stated: after next at the last step has ended a session, a further
\* next leaves a session at step 0 on the recipe of the session that ended.
C37_RestartsOnEndedRecipe ==
    [][(/\ trace.action = "cookAlong" /\ trace.navCommand = "next"
        /\ trace.result.data = FinishedData
        /\ trace'.action = "cookAlong" /\ trace'.navCommand = "next") =>
           /\ IsSome(SessionAfter)
           /\ Get(SessionAfter).currentStep = 0
           /\ Get(SessionAfter).recipe = Get(trace.kitchenState.cookingSession).recipe]_vars

\* the second cook-along message that found no session was classified done; it found a
\* stored recipe, and a session is under way at step 0 of it
C37_Witness ==
    /\ trace.action = "cookAlong" /\ trace.mode = "begin" /\ trace.navCommand = "done"
    /\ ~IsSome(trace.kitchenState.cookingSession)
    /\ IsSome(trace.kitchenState.currentRecipe)
    /\ now = 2
    /\ HasSession /\ Session.currentStep = 0
    /\ Session.recipe = Get(trace.kitchenState.currentRecipe)

----------------------------------------------------------------------------
(* The chat hook *)

\* the request ended: it resolved, it failed, or it was aborted and its catch block ran
Ended(r) == chat.requests[r].pc # "pending"

\* C39: every placeholder of sendChatMessage is finalized.  Once the request of a
\* placeholder has resolved, failed or been aborted by a newer sendChatMessage, no message
\* with the id of that placeholder has isStreaming = true; and isLoading is not false
\* while a request that was not aborted is still in flight.
C39_PlaceholdersFinalized ==
    /\ \A r \in 1..Len(chat.requests) : \A i \in 1..Len(chat.messages) :
           (Ended(r) /\ chat.messages[i].id = chat.requests[r].streamingId) =>
               ~chat.messages[i].isStreaming
    /\ (\E r \in 1..Len(chat.requests) : ~Ended(r) /\ ~chat.requests[r].aborted) =>
           chat.isLoading


\* C38: when a write of the cache fails in a cook-along run, the handler returns
\* success: false, no step, completion or intro text has gone out through the callback
\* (the notice that a recipe is being made first is none of the three), and the stored
\* KitchenState is the one the handler read.
C38_FailedWriteChangesNothing ==
    (trace.action = "cookAlong" /\ trace.broke = Some("write")) =>
        /\ ~trace.result.success
        /\ \A i \in 1..Len(trace.texts) : trace.texts[i] = NoRecipeText
        /\ getKitchenState(cache) = trace.kitchenState

====
